---- MODULE Spec2Model ----
(***************************************************************************)
(* A model of the FPL analysis application: the SmartDataCache object      *)
(* (cache_module.py), the data loader (github_data.py), the routes of      *)
(* app.py that read and write the cache, and the LLM headline helper.      *)
(*                                                                         *)
(* The specifications share the variables:                                 *)
(*   Spec        the application, one whole handler per step, its clock    *)
(*               reading 01:00, 05:00, 09:00, 13:00, 17:00, 21:00 UTC;     *)
(*   SpecTime    should_refresh and get_next_update_time over every clock  *)
(*               reading and every earlier last_updated, tick by tick;     *)
(*   SpecRace    cache.update in the scheduler's thread against cache.get  *)
(*               in a request thread, one statement per step;              *)
(*   SpecLLM     generate_analysis_headlines, one loop iteration per step  *)
(*               (SpecLLMFair: a running call keeps running).              *)
(*   SpecItems   the routes that read and write cache._cache_items, the    *)
(*               clock stepping once from 01:00 to 05:00;                  *)
(*   SpecStore   cache.set, cache.delete and cache.get in any order;       *)
(*   SpecGW      find_latest_gw_file and determine_gw_info over families   *)
(*               of repositories and every week of the season;             *)
(*   SpecMerge   the merge of fetch_data_from_github over small CSV files; *)
(*   SpecFrame   PlayerDataFrame's calculated fields over small frames;    *)
(*   SpecView    get_view and top_n over small tables of players.          *)
(*                                                                         *)
(* Time is counted in ticks since midnight UTC of day 0; one hour is       *)
(* TicksPerHour ticks, so a datetime carries a sub-hour part that          *)
(* datetime.replace(hour=h, minute=0, second=0, microsecond=0) truncates.  *)
(***************************************************************************)
EXTENDS Integers, Sequences, FiniteSets, TLC

VARIABLES
    now,        \* the UTC wall clock, datetime.now(timezone.utc)
    cache,      \* the process-wide SmartDataCache object (app.py:39)
    call,       \* history: what the most recent handler call did
    lastGood,   \* history: (table, gameweek) of the latest successful refresh
    probe,      \* result of the latest should_refresh/get_next_update_time call
    reader,     \* a request thread reading the cache field by field
    writer,     \* the background thread running cache.update field by field
    stamp,      \* history: which update() call wrote each field of the cache
    llm,        \* one run of generate_analysis_headlines
    ops,        \* history: the set and delete calls on the keyed item store
    search,     \* one run of find_latest_gw_file and determine_gw_info
    frame       \* one table on its way through the merge and PlayerDataFrame

vars == <<now, cache, call, lastGood, probe, reader, writer, stamp, llm,
          ops, search, frame>>

-----------------------------------------------------------------------------
(* Bounds of the model *)

TicksPerHour == 2
MaxClockSteps == 6
MaxProbeDays == 2
MaxTables == 2
MaxGW == 2
MaxTeamVersions == 2
MaxUpdates == 2
MaxItems == 4
MaxOps == 4
MaxRows == 2
MaxViewRows == 3
MaxTop == 2

(* Program constants *)

HoursPerDay == 24
update_hours == <<5, 17>>

DayTicks == HoursPerDay * TicksPerHour
\* the gap between the two daily update instants
Window == (update_hours[2] - update_hours[1]) * TicksPerHour
\* the step of the application's clock: a third of that gap
ClockStep == Window \div 3

-----------------------------------------------------------------------------
(* Python values *)

None == [k |-> "None"]
PyInt(n) == [k |-> "int", v |-> n]
PyStr(s) == [k |-> "str", v |-> s]
DateTime(t) == [k |-> "datetime", v |-> t]
\* a PlayerDataFrame object: id is the object's identity; len is 0 for a
\* table without rows and 1 for a table with rows
Table(id, n) == [k |-> "PlayerDataFrame", id |-> id, len |-> n]
\* PlayerDataFrame(pd.DataFrame()): a fresh object with no rows
EmptyPlayerDataFrame == Table(0, 0)

Min(S) == CHOOSE m \in S : \A o \in S : m <= o
Max(S) == CHOOSE m \in S : \A o \in S : m >= o

-----------------------------------------------------------------------------
(* cache_module.py *)

\* now.replace(hour=hour, minute=0, second=0, microsecond=0)
Replace(t, hour) == (t \div DayTicks) * DayTicks + hour * TicksPerHour

SmartDataCache ==
    [data |-> None, last_updated |-> None, current_gw |-> None,
     cache_items |-> <<>>]

\* get_next_update_time accepting an update time equal to now
get_next_update_time_not_strict(t) ==
    LET later == {i \in 1..Len(update_hours) : Replace(t, update_hours[i]) >= t}
    IN  IF later # {}
        THEN Replace(t, update_hours[Min(later)])
        ELSE Replace(t + DayTicks, update_hours[1])

get_next_update_time(t) ==
    LET later == {i \in 1..Len(update_hours) : Replace(t, update_hours[i]) > t}
    IN  IF later # {}
        THEN Replace(t, update_hours[Min(later)])
        ELSE Replace(t + DayTicks, update_hours[1])

\* should_refresh without the scan of yesterday's update times
should_refresh_today_only(c, t) ==
    IF c.last_updated = None
    THEN TRUE
    ELSE \E i \in 1..Len(update_hours) :
            /\ c.last_updated.v < Replace(t, update_hours[i])
            /\ Replace(t, update_hours[i]) <= t

should_refresh(c, t) ==
    IF c.last_updated = None
    THEN TRUE
    ELSE \/ \E i \in 1..Len(update_hours) :
               /\ c.last_updated.v < Replace(t, update_hours[i])
               /\ Replace(t, update_hours[i]) <= t
         \/ \E i \in 1..Len(update_hours) :
               /\ c.last_updated.v < Replace(t - DayTicks, update_hours[i])
               /\ Replace(t - DayTicks, update_hours[i]) <= t

\* update() that only sets the gameweek of an empty cache
update_keep_gw(c, d, gw, t) ==
    [c EXCEPT !.data = d,
              !.current_gw = IF c.current_gw = None THEN gw ELSE c.current_gw,
              !.last_updated = DateTime(t)]

update(c, d, gw, t) ==
    [c EXCEPT !.data = d, !.current_gw = gw, !.last_updated = DateTime(t)]

get(c, key) ==
    IF key = None
    THEN IF c.data # None THEN <<c.data, c.current_gw>> ELSE <<None, None>>
    ELSE IF key.v \in DOMAIN c.cache_items THEN c.cache_items[key.v] ELSE None

set(c, key, value) ==
    [c EXCEPT !.cache_items = (key.v :> value) @@ c.cache_items]

\* delete() that reports success whether or not the key was there
delete_always_true(c, key) ==
    [cache |-> [c EXCEPT !.cache_items =
                    [x \in DOMAIN c.cache_items \ {key.v} |-> c.cache_items[x]]],
     ret |-> TRUE]

\* the cache after delete(key), and delete's return value
delete(c, key) ==
    IF key.v \in DOMAIN c.cache_items
    THEN [cache |-> [c EXCEPT !.cache_items =
                        [x \in DOMAIN c.cache_items \ {key.v} |-> c.cache_items[x]]],
          ret |-> TRUE]
    ELSE [cache |-> c, ret |-> FALSE]

is_empty(c) == c.data = None

-----------------------------------------------------------------------------
(* github_data.py *)

\* what fetch_data_from_github() can return: (None, None) after any
\* exception, else a freshly built table and the detected gameweek.  A table
\* without rows is never stored or returned, so one such answer stands for all.
FetchOutcomes ==
    {<<None, None>>, <<Table(1, 0), PyInt(1)>>} \cup
    {<<Table(id, 1), PyInt(g)>> : id \in 1..MaxTables, g \in 1..MaxGW}

\* github_data.py:248/272: player_df is not None and len(player_df) > 0
FetchGood(f) == f[1] # None /\ f[1].len > 0

\* load_fpl_data without the freshness check of github_data.py:238
load_fpl_data_always_fetch(c, t, f) ==
    LET cached_data == get(c, None)[1]
    IN  IF FetchGood(f)
        THEN [cache |-> update(c, f[1], f[2], t), ret |-> f[1], fetched |-> TRUE]
        ELSE IF cached_data # None
             THEN [cache |-> c, ret |-> cached_data, fetched |-> TRUE]
             ELSE [cache |-> c, ret |-> EmptyPlayerDataFrame, fetched |-> TRUE]

\* load_fpl_data accepting any table that is not None, rows or not
load_fpl_data_no_len_check(c, t, f) ==
    LET cached_data == get(c, None)[1]
    IN  IF cached_data # None /\ ~should_refresh(c, t)
        THEN [cache |-> c, ret |-> cached_data, fetched |-> FALSE]
        ELSE IF f[1] # None
             THEN [cache |-> update(c, f[1], f[2], t), ret |-> f[1], fetched |-> TRUE]
             ELSE IF cached_data # None
                  THEN [cache |-> c, ret |-> cached_data, fetched |-> TRUE]
                  ELSE [cache |-> c, ret |-> EmptyPlayerDataFrame, fetched |-> TRUE]

\* load_fpl_data(cache) at time t when the upstream would answer f:
\* the cache afterwards, the returned table, and whether upstream was asked
load_fpl_data(c, t, f) ==
    LET cached_data == get(c, None)[1]
    IN  IF cached_data # None /\ ~should_refresh(c, t)
        THEN [cache |-> c, ret |-> cached_data, fetched |-> FALSE]
        ELSE IF FetchGood(f)
             THEN [cache |-> update(c, f[1], f[2], t), ret |-> f[1], fetched |-> TRUE]
             ELSE IF cached_data # None
                  THEN [cache |-> c, ret |-> cached_data, fetched |-> TRUE]
                  ELSE [cache |-> c, ret |-> EmptyPlayerDataFrame, fetched |-> TRUE]

\* scheduled_data_refresh that skips the fetch while the cache is fresh
scheduled_data_refresh_if_due(c, t, f) ==
    IF ~should_refresh(c, t)
    THEN [cache |-> c, ret |-> None, fetched |-> FALSE]
    ELSE IF FetchGood(f)
         THEN [cache |-> update(c, f[1], f[2], t), ret |-> None, fetched |-> TRUE]
         ELSE [cache |-> c, ret |-> None, fetched |-> TRUE]

scheduled_data_refresh(c, t, f) ==
    IF FetchGood(f)
    THEN [cache |-> update(c, f[1], f[2], t), ret |-> None, fetched |-> TRUE]
    ELSE [cache |-> c, ret |-> None, fetched |-> TRUE]

-----------------------------------------------------------------------------
(* github_data.py:18-125: gameweek detection *)

\* the last gameweek of a season
LastGW == 38
\* range(1, 10): the offsets searched on either side of the estimate
MaxOffset == 9
\* a file counts as valid above this Content-Length
MinLength == 1000
\* response.status_code of a found and of a missing file
StatusOK == 200
StatusNotFound == 404

ValueError == [k |-> "ValueError"]
RequestException == [k |-> "RequestException"]

\* a header value, character by character
Header(chars) == [k |-> "str", chars |-> chars]

Digit ==
    ("0" :> 0) @@ ("1" :> 1) @@ ("2" :> 2) @@ ("3" :> 3) @@ ("4" :> 4) @@
    ("5" :> 5) @@ ("6" :> 6) @@ ("7" :> 7) @@ ("8" :> 8) @@ ("9" :> 9)

RECURSIVE DecimalValue(_)
DecimalValue(chars) ==
    IF chars = <<>> THEN 0
    ELSE DecimalValue(SubSeq(chars, 1, Len(chars) - 1)) * 10 + Digit[chars[Len(chars)]]

\* int(content_length) for a string of digits, ValueError for another string
int(h) ==
    IF h.chars # <<>> /\ \A i \in 1..Len(h.chars) : h.chars[i] \in DOMAIN Digit
    THEN PyInt(DecimalValue(h.chars))
    ELSE ValueError

Response(status_code, content_length) ==
    [k |-> "Response", status_code |-> status_code, content_length |-> content_length]

\* what requests.head answers for the file of gameweek gw.  The upstream has
\* valid files for the gameweeks in world.valid and answers with a
\* Content-Length that is no number for those in world.bad; the other
\* gameweeks have no valid file, each in one of four ways: not found, a file
\* of exactly MinLength bytes, no Content-Length header, a network error
head(world, gw) ==
    CASE gw \in world.valid ->
            Response(StatusOK, Header(<<"1", "0", "0", "1">>))
      [] gw \in world.bad ->
            Response(StatusOK, Header(<<"1", "0", "0", "1", ",", "1", "0", "0", "1">>))
      [] OTHER ->
            CASE gw % 4 = 0 -> Response(StatusNotFound, Header(<<"1", "4">>))
              [] gw % 4 = 1 -> Response(StatusOK, Header(<<"1", "0", "0", "0">>))
              [] gw % 4 = 2 -> Response(StatusOK, None)
              [] OTHER -> RequestException

\* how a call ends: with a value, or with an exception
Returned(v) == [k |-> "return", v |-> v]
Raised(e) == [k |-> "raise", exc |-> e]

\* check_gw_file_exists(gw): True, False, or the ValueError of int()
check_gw_file_exists(world, gw) ==
    IF ~(1 <= gw /\ gw <= LastGW)
    THEN Returned(FALSE)
    ELSE LET response == head(world, gw)
         IN  IF response = RequestException
             THEN Returned(FALSE)
             ELSE IF response.status_code = StatusOK
                     /\ response.content_length # None
                     /\ response.content_length.chars # <<>>
                  THEN IF int(response.content_length) = ValueError
                       THEN Raised(ValueError)
                       ELSE Returned(int(response.content_length).v > MinLength)
                  ELSE Returned(FALSE)

\* github_data.py:54
estimated_gw(weeks_since_start) == Max({1, Min({weeks_since_start + 1, LastGW})})

\* github_data.py:59-64
RECURSIVE search_order_upto(_, _)
search_order_upto(est, offset) ==
    IF offset = 0
    THEN <<est>>
    ELSE search_order_upto(est, offset - 1)
            \o (IF est + offset <= LastGW THEN <<est + offset>> ELSE <<>>)
            \o (IF est - offset >= 1 THEN <<est - offset>> ELSE <<>>)

search_order(est) == search_order_upto(est, MaxOffset)

\* range(38, 0, -1)
reverse_scan == [i \in 1..LastGW |-> LastGW + 1 - i]

\* what check_gw_file_exists answers for each gameweek
Answers(world) == [gw \in 1..LastGW |-> check_gw_file_exists(world, gw)]

\* find_latest_gw_file that answers 0 when no file is found
find_latest_gw_file_zero(check, weeks_since_start) ==
    LET order == search_order(estimated_gw(weeks_since_start))
        found == {order[i] : i \in {j \in 1..Len(order) : check[order[j]] = Returned(TRUE)}}
    IN  [ret |-> Max(found \cup {0}), error |-> FALSE, window |-> order, scan |-> <<>>]

\* find_latest_gw_file() when check_gw_file_exists answers as in check: the
\* value returned, whether the except clause ran, and the gameweeks probed by
\* the window search and by the full reverse scan
find_latest_gw_file(check, weeks_since_start) ==
    LET order == search_order(estimated_gw(weeks_since_start))
        raising == {i \in 1..Len(order) : check[order[i]].k = "raise"}
        found == {order[i] : i \in {j \in 1..Len(order) : check[order[j]] = Returned(TRUE)}}
        latest_found_gw == Max(found \cup {0})
        stop == {i \in 1..LastGW : check[reverse_scan[i]] # Returned(FALSE)}
    IN  IF raising # {}
        THEN [ret |-> 1, error |-> TRUE,
              window |-> SubSeq(order, 1, Min(raising)), scan |-> <<>>]
        ELSE IF latest_found_gw > 0
        THEN [ret |-> latest_found_gw, error |-> FALSE, window |-> order, scan |-> <<>>]
        ELSE IF stop = {}
        THEN [ret |-> 1, error |-> FALSE, window |-> order, scan |-> reverse_scan]
        ELSE IF check[reverse_scan[Min(stop)]].k = "raise"
        THEN [ret |-> 1, error |-> TRUE, window |-> order,
              scan |-> SubSeq(reverse_scan, 1, Min(stop))]
        ELSE [ret |-> reverse_scan[Min(stop)], error |-> FALSE, window |-> order,
              scan |-> SubSeq(reverse_scan, 1, Min(stop))]

\* determine_gw_info without the floor of 1 on stats_gw
determine_gw_info_no_floor(latest_file_gw) ==
    [current_gw |-> latest_file_gw, stats_gw |-> latest_file_gw - 1,
     transfers_gw |-> latest_file_gw, gw_status |-> "unknown"]

\* github_data.py:104-120, given what find_latest_gw_file() returned
determine_gw_info(latest_file_gw) ==
    [current_gw |-> latest_file_gw,
     stats_gw |-> IF latest_file_gw = 1 THEN 1 ELSE Max({1, latest_file_gw - 1}),
     transfers_gw |-> latest_file_gw,
     gw_status |-> "unknown"]

-----------------------------------------------------------------------------
(* github_data.py:180-194: the merge of fetch_data_from_github *)

\* a missing value of a pandas column
NaN == [k |-> "NaN"]

\* the sequences of at most n elements of S
SeqsUpTo(S, n) == UNION {[1..k -> S] : k \in 0..n}

\* teams_df.set_index('code')[...].to_dict('index'): a dict from code to
\* row, and a ValueError when a code occurs twice
to_dict_index(teams_df) ==
    IF \E i, j \in 1..Len(teams_df) : i # j /\ teams_df[i].code = teams_df[j].code
    THEN Raised(ValueError)
    ELSE Returned([code \in {teams_df[i].code : i \in 1..Len(teams_df)} |->
                    teams_df[CHOOSE i \in 1..Len(teams_df) : teams_df[i].code = code]])

\* the rows of right whose player_id is id, in their order
RECURSIVE Matching(_, _)
Matching(right, id) ==
    IF right = <<>> THEN <<>>
    ELSE (IF Head(right).player_id = id THEN <<Head(right)>> ELSE <<>>)
            \o Matching(Tail(right), id)

\* merge(how='inner'): rows without a match are dropped
RECURSIVE merge_inner(_, _)
merge_inner(left, right) ==
    IF left = <<>> THEN <<>>
    ELSE LET found == Matching(right, Head(left).id)
         IN  [j \in 1..Len(found) |->
                    [id |-> Head(left).id, team_code |-> found[j].team_code]]
             \o merge_inner(Tail(left), right)

\* current_players.merge(players_master[[...]], left_on='id',
\* right_on='player_id', how='left'): a row for every match of a left row,
\* and a row with missing values for a left row without match
RECURSIVE merge_left(_, _)
merge_left(left, right) ==
    IF left = <<>> THEN <<>>
    ELSE LET found == Matching(right, Head(left).id)
         IN  (IF found = <<>>
              THEN <<[id |-> Head(left).id, team_code |-> NaN]>>
              ELSE [j \in 1..Len(found) |->
                        [id |-> Head(left).id, team_code |-> found[j].team_code]])
             \o merge_left(Tail(left), right)

\* team_mapping.get(x, {}).get('short_name', 'Unknown')
team_name(team_mapping, x) ==
    IF x # NaN /\ x.v \in DOMAIN team_mapping
    THEN team_mapping[x.v].short_name
    ELSE "Unknown"

\* github_data.py:180-194 and 219-221: analysis_df, or None after an exception
merged_table(current_players, players_master, teams_df) ==
    LET team_mapping == to_dict_index(teams_df)
        analysis_df == merge_left(current_players, players_master)
    IN  IF team_mapping.k = "raise"
        THEN None
        ELSE [k |-> "DataFrame",
              rows |-> [i \in 1..Len(analysis_df) |->
                          [id |-> analysis_df[i].id,
                           team_code |-> analysis_df[i].team_code,
                           team_name |-> team_name(team_mapping.v,
                                                   analysis_df[i].team_code)]]]

-----------------------------------------------------------------------------
(* player_dataframe.py:21-81: PlayerDataFrame and points_per_million *)

\* a float: the fraction num/den in lowest terms with den > 0, or an infinity
Infinity(sign) == [k |-> "inf", sign |-> sign]

RECURSIVE GCD(_, _)
GCD(a, b) == IF b = 0 THEN a ELSE GCD(b, a % b)

Abs(n) == IF n < 0 THEN -n ELSE n

Fraction(num, den) ==
    LET g == GCD(Abs(num), Abs(den))
        sign == IF den < 0 THEN -1 ELSE 1
    IN  [k |-> "float", num |-> sign * (num \div g), den |-> sign * (den \div g)]

Number(n) == Fraction(n, 1)

\* Series / Series, element by element: a missing operand gives NaN, a
\* division by zero an infinity, and 0/0 NaN
truediv(a, b) ==
    CASE a = NaN \/ b = NaN -> NaN
      [] b.num = 0 -> IF a.num > 0 THEN Infinity(1)
                      ELSE IF a.num < 0 THEN Infinity(-1) ELSE NaN
      [] OTHER -> Fraction(a.num * b.den, a.den * b.num)

\* Series > 0, element by element: False for a missing value
gt0(x) == x # NaN /\ x.num > 0

\* Series.where(cond, other), element by element
where(x, cond, other) == IF cond THEN x ELSE other

\* Series.fillna(value), element by element
fillna(x, value) == IF x = NaN THEN value ELSE x

\* points_per_million computed without the where() guard
apply_calculated_fields_unguarded(df) ==
    IF {"total_points", "now_cost"} \subseteq df.columns
    THEN [columns |-> df.columns \cup {"points_per_million"},
          rows |-> [i \in 1..Len(df.rows) |->
                      ("points_per_million" :>
                            fillna(truediv(df.rows[i]["total_points"],
                                           df.rows[i]["now_cost"]), Number(0)))
                      @@ df.rows[i]]]
    ELSE df

\* player_dataframe.py:77-81: _apply_calculated_fields, points per million
apply_calculated_fields(df) ==
    IF {"total_points", "now_cost"} \subseteq df.columns
    THEN [columns |-> df.columns \cup {"points_per_million"},
          rows |-> [i \in 1..Len(df.rows) |->
                      ("points_per_million" :>
                            fillna(where(truediv(df.rows[i]["total_points"],
                                                 df.rows[i]["now_cost"]),
                                         gt0(df.rows[i]["now_cost"]),
                                         Number(0)),
                                   Number(0)))
                      @@ df.rows[i]]]
    ELSE df

-----------------------------------------------------------------------------
(* player_dataframe.py:21-126: the constructor of PlayerDataFrame *)

AttributeError == [k |-> "AttributeError"]
TypeError == [k |-> "TypeError"]
False == [k |-> "bool", v |-> FALSE]

\* Series.isna(), element by element
isna(x) == x = NaN \/ x = None

\* Series * Series and Series + Series, element by element
mul(a, b) ==
    IF a = NaN \/ b = NaN THEN NaN ELSE Fraction(a.num * b.num, a.den * b.den)

add(a, b) ==
    IF a = NaN \/ b = NaN THEN NaN
    ELSE Fraction(a.num * b.den + b.num * a.den, a.den * b.den)

\* Series >= value and Series <= value, element by element: False for a
\* missing value
ge(a, b) == ~isna(a) /\ ~isna(b) /\ a.num * b.den >= b.num * a.den

le(a, b) == ge(b, a)

\* Series.clip(lower, upper), element by element
clip(x, lower, upper) ==
    IF x = NaN THEN NaN
    ELSE IF ~ge(x, lower) THEN lower ELSE IF ~le(x, upper) THEN upper ELSE x

\* df[col] = values, where values[i] is the new cell of row i
assign(df, col, values) ==
    [columns |-> df.columns \cup {col},
     rows |-> [i \in 1..Len(df.rows) |-> (col :> values[i]) @@ df.rows[i]]]

\* a scalar as the value of a column: the same cell in every row
scalar(df, value) == [i \in 1..Len(df.rows) |-> value]

\* the columns _ensure_required_columns adds, with their defaults
RequiredColumns ==
    <<[col |-> "is_in_my_team", default |-> False],
      [col |-> "my_team_position", default |-> None],
      [col |-> "is_captain", default |-> False],
      [col |-> "is_vice_captain", default |-> False],
      [col |-> "bench_position", default |-> False],
      [col |-> "chance_of_playing_next_round", default |-> Number(100)],
      [col |-> "chance_of_playing_this_round", default |-> Number(100)],
      [col |-> "news", default |-> PyStr("")]>>

RECURSIVE add_missing(_, _)
add_missing(df, k) ==
    IF k > Len(RequiredColumns) THEN df
    ELSE add_missing(IF RequiredColumns[k].col \in df.columns THEN df
                     ELSE assign(df, RequiredColumns[k].col,
                                 scalar(df, RequiredColumns[k].default)),
                     k + 1)

\* Series.astype(str), element by element
astype_str(x) == IF x = NaN THEN PyStr("nan") ELSE x

\* player_dataframe.py:38-71
ensure_required_columns(df) ==
    LET added == add_missing(df, 1)
    IN  IF "position" \in added.columns
        THEN assign(added, "position",
                    [i \in 1..Len(added.rows) |-> astype_str(added.rows[i]["position"])])
        ELSE added

\* player_dataframe.py:83-99: minutes_pct
minutes_pct_field(df) ==
    IF {"minutes", "current_gw"} \subseteq df.columns
    THEN IF Len(df.rows) > 0 /\ \E i \in 1..Len(df.rows) : ~isna(df.rows[i]["current_gw"])
         THEN LET current_gw == df.rows[1]["current_gw"]
                  max_minutes_possible == mul(current_gw, Number(90))
              IN  IF gt0(max_minutes_possible)
                  THEN assign(df, "minutes_pct",
                           [i \in 1..Len(df.rows) |->
                               fillna(clip(mul(truediv(df.rows[i]["minutes"],
                                                       max_minutes_possible),
                                               Number(100)),
                                           Number(0), Number(100)),
                                      Number(0))])
                  ELSE assign(df, "minutes_pct", scalar(df, Number(0)))
         ELSE assign(df, "minutes_pct", scalar(df, Number(0)))
    ELSE IF "minutes" \notin df.columns
         THEN assign(df, "minutes_pct", scalar(df, Number(0)))
         ELSE df

\* Series.max(): the largest value that is not missing, NaN when there is none
column_max(df, col) ==
    LET values == {df.rows[i][col] : i \in 1..Len(df.rows)} \ {NaN}
    IN  IF values = {} THEN NaN
        ELSE CHOOSE m \in values : \A v \in values : ge(m, v)

\* series / its maximum if the maximum is positive, else the scalar 0
normalized(x, maximum) == IF gt0(maximum) THEN truediv(x, maximum) ELSE Number(0)

\* the weights 0.4, 0.3 and 0.3 of the composite score
ppm_weight == Fraction(2, 5)
form_weight == Fraction(3, 10)
xgi_weight == Fraction(3, 10)

\* player_dataframe.py:101-120: value_score. When none of the three maxima is
\* positive the weighted sum is the float 0.0, which has no fillna
value_score_field(df) ==
    IF {"points_per_million", "form", "expected_goal_involvements"} \subseteq df.columns
    THEN LET ppm_max == column_max(df, "points_per_million")
             form_max == column_max(df, "form")
             xgi_max == column_max(df, "expected_goal_involvements")
         IN  IF ~gt0(ppm_max) /\ ~gt0(form_max) /\ ~gt0(xgi_max)
             THEN Raised(AttributeError)
             ELSE Returned(assign(df, "value_score",
                     [i \in 1..Len(df.rows) |->
                         LET row == df.rows[i]
                         IN  fillna(add(add(mul(normalized(row["points_per_million"],
                                                           ppm_max),
                                                ppm_weight),
                                            mul(normalized(row["form"], form_max),
                                                form_weight)),
                                        mul(normalized(row["expected_goal_involvements"],
                                                       xgi_max),
                                            xgi_weight)),
                                    Number(0))]))
    ELSE Returned(assign(df, "value_score", scalar(df, Number(0))))

\* data_models.py:572-582
POSITION_MAP ==
    "Goalkeeper" :> "GK" @@ "Defender" :> "DEF" @@ "Midfielder" :> "MID"
    @@ "Forward" :> "FWD" @@ "GK" :> "Goalkeeper" @@ "DEF" :> "Defender"
    @@ "MID" :> "Midfielder" @@ "FWD" :> "Forward"

\* player_dataframe.py:122-126: position_short
position_short_field(df) ==
    IF "position" \in df.columns
    THEN assign(df, "position_short",
             [i \in 1..Len(df.rows) |->
                 LET x == df.rows[i]["position"]
                 IN  IF x.v \in DOMAIN POSITION_MAP THEN PyStr(POSITION_MAP[x.v])
                     ELSE x])
    ELSE df

\* player_dataframe.py:21-36: PlayerDataFrame(df), the wrapped table or the
\* exception the constructor raises
PlayerDataFrame(df) ==
    LET scored == value_score_field(
                      minutes_pct_field(
                          apply_calculated_fields(ensure_required_columns(df))))
    IN  IF scored.k = "raise" THEN scored
        ELSE Returned(position_short_field(scored.v))

-----------------------------------------------------------------------------
(* data_models.py:130-245 and player_dataframe.py:128-178, 296-311: views *)

\* a filter value: a scalar is a minimum, a tuple is (min, max)
Scalar(v) == [k |-> "scalar", v |-> Number(v)]
Tuple(min_val, max_val) ==
    [k |-> "tuple", min_val |-> Number(min_val), max_val |-> Number(max_val)]

\* data_models.py:130-245; filters are in the order of the dict
VIEW_CONFIGS ==
    "overview_table" :>
        [columns |-> <<"web_name", "team_name", "position", "now_cost",
                       "selected_by_percent", "total_points", "form",
                       "expected_goal_involvements", "points_per_million">>,
         sort_by |-> "total_points", ascending |-> FALSE,
         filters |-> <<[field |-> "minutes", value |-> Scalar(90)]>>]
    @@ "position_overview" :>
        [columns |-> <<"web_name", "team_name", "now_cost", "selected_by_percent",
                       "total_points", "form", "clean_sheets", "points_per_million">>,
         sort_by |-> "total_points", ascending |-> FALSE,
         filters |-> <<[field |-> "minutes", value |-> Scalar(90)]>>]
    @@ "goalkeeper_analysis" :>
        [columns |-> <<"web_name", "team_name", "now_cost", "selected_by_percent",
                       "total_points", "saves_per_90", "clean_sheets",
                       "save_value_per_million", "points_per_million">>,
         sort_by |-> "save_value_per_million", ascending |-> FALSE,
         filters |-> <<[field |-> "minutes", value |-> Scalar(90)]>>]
    @@ "outfield_analysis" :>
        [columns |-> <<"web_name", "team_name", "now_cost", "selected_by_percent",
                       "total_points", "expected_goal_involvements",
                       "clean_sheets", "form", "points_per_million">>,
         sort_by |-> "expected_goal_involvements", ascending |-> FALSE,
         filters |-> <<[field |-> "minutes", value |-> Scalar(90)]>>]
    @@ "my_team_detailed" :>
        [columns |-> <<"web_name", "position", "team_name", "now_cost",
                       "total_points", "form", "minutes", "minutes_pct",
                       "expected_goal_involvements", "ict_index",
                       "chance_of_playing_next_round", "news",
                       "my_team_position", "is_captain", "is_vice_captain">>,
         sort_by |-> "my_team_position", ascending |-> TRUE,
         filters |-> <<>>]
    @@ "transfer_search" :>
        [columns |-> <<"web_name", "team_name", "position", "now_cost",
                       "selected_by_percent", "total_points", "form",
                       "expected_goal_involvements", "ict_index",
                       "points_per_million", "value_score",
                       "minutes_pct", "chance_of_playing_next_round">>,
         sort_by |-> "value_score", ascending |-> FALSE,
         filters |-> <<[field |-> "minutes", value |-> Scalar(180)],
                       [field |-> "chance_of_playing_next_round", value |-> Scalar(75)]>>]
    @@ "differentials" :>
        [columns |-> <<"web_name", "team_name", "position", "now_cost",
                       "selected_by_percent", "total_points", "form",
                       "expected_goal_involvements", "points_per_million">>,
         sort_by |-> "expected_goal_involvements", ascending |-> FALSE,
         filters |-> <<[field |-> "selected_by_percent", value |-> Tuple(0, 10)],
                       [field |-> "minutes", value |-> Scalar(180)]>>]
    @@ "defensive_contribution" :>
        [columns |-> <<"web_name", "team_name", "position", "now_cost",
                       "total_points", "clean_sheets", "defensive_contribution",
                       "defensive_contribution_per_90">>,
         sort_by |-> "defensive_contribution", ascending |-> FALSE,
         filters |-> <<[field |-> "minutes", value |-> Scalar(180)]>>]

\* does the cell pass the filter value (player_dataframe.py:152-162)
passes(x, filter_value) ==
    IF filter_value.k = "tuple"
    THEN ge(x, filter_value.min_val) /\ le(x, filter_value.max_val)
    ELSE ge(x, filter_value.v)

\* df[mask]: the rows the mask keeps
RECURSIVE masked(_, _, _)
masked(rows, mask, k) ==
    IF k > Len(rows) THEN <<>>
    ELSE (IF mask[k] THEN <<rows[k]>> ELSE <<>>) \o masked(rows, mask, k + 1)

keep_rows(df, mask) == [columns |-> df.columns, rows |-> masked(df.rows, mask, 1)]

\* player_dataframe.py:147-162: the filters one after the other
RECURSIVE apply_filters(_, _, _)
apply_filters(filtered_df, filters, k) ==
    IF k > Len(filters) THEN filtered_df
    ELSE apply_filters(
            IF filters[k].field \notin filtered_df.columns THEN filtered_df
            ELSE keep_rows(filtered_df,
                           [i \in 1..Len(filtered_df.rows) |->
                               passes(filtered_df.rows[i][filters[k].field],
                                      filters[k].value)]),
            filters, k + 1)

\* df[columns]: the listed columns, each row keeping its index label
select_columns(df, columns) ==
    [columns |-> columns,
     rows |-> [i \in 1..Len(df.rows) |->
                 [c \in columns \cup {"index"} |-> df.rows[i][c]]]]

\* the orders of n rows
Orders(n) == {p \in [1..n -> 1..n] : \A i, j \in 1..n : i # j => p[i] # p[j]}

\* may a cell a stand before a cell b after a sort: missing values are last
InOrder(a, b, ascending) ==
    IF isna(a) THEN isna(b)
    ELSE isna(b) \/ IF ascending THEN le(a, b) ELSE ge(a, b)

\* the rows in the order p
take(df, p) == [columns |-> df.columns, rows |-> [i \in 1..Len(p) |-> df.rows[p[i]]]]

\* df.sort_values(by, ascending=ascending) with the default quicksort: every
\* order of the rows the sort may produce. Missing values come last in the
\* order they had; equal values may come in any order
sort_values(df, by, ascending) ==
    {take(df, p) : p \in
        {q \in Orders(Len(df.rows)) :
            \A i, j \in 1..Len(df.rows) :
                i < j =>
                    /\ InOrder(df.rows[q[i]][by], df.rows[q[j]][by], ascending)
                    /\ isna(df.rows[q[i]][by]) => q[i] < q[j]}}

\* df.sort_values(by, ascending=False, kind='mergesort'): equal values keep
\* the order they had
stable_descending(df, by) ==
    CHOOSE sorted \in sort_values(df, by, FALSE) :
        \A i, j \in 1..Len(sorted.rows) :
            i < j /\ ge(sorted.rows[j][by], sorted.rows[i][by]) =>
                sorted.rows[i]["index"] < sorted.rows[j]["index"]

\* df.head(n)
head_rows(df, n) ==
    [columns |-> df.columns, rows |-> SubSeq(df.rows, 1, Min({n, Len(df.rows)}))]

\* the columns pandas holds as objects: strings and None
is_object(df, col) ==
    \/ col \in {"news", "web_name", "team_name", "position", "position_short"}
    \/ \E i \in 1..Len(df.rows) : df.rows[i][col].k \in {"str", "None"}

\* df.nlargest(n, column) with keep='first': a TypeError for a column of
\* objects; no row for n <= 0; all rows sorted when n >= len(df); else the n
\* largest values in descending order, the first of equal values first, and
\* rows with a missing value only where fewer than n rows have a value
nlargest(df, n, column) ==
    IF is_object(df, column) THEN {Raised(TypeError)}
    ELSE IF n <= 0 THEN {Returned(head_rows(df, 0))}
    ELSE IF n >= Len(df.rows)
         THEN {Returned(head_rows(sorted, n)) : sorted \in sort_values(df, column, FALSE)}
         ELSE {Returned(head_rows(stable_descending(df, column), n))}

\* player_dataframe.py:128-178: get_view(view_name), every result the call
\* may have: self for a name that is not configured, else the filtered,
\* projected and sorted table wrapped in a new PlayerDataFrame
get_view(df, view_name) ==
    IF view_name \notin DOMAIN VIEW_CONFIGS THEN {Returned(df)}
    ELSE LET config == VIEW_CONFIGS[view_name]
             filtered_df == apply_filters(df, config.filters, 1)
             available_columns ==
                 {config.columns[i] : i \in 1..Len(config.columns)} \cap filtered_df.columns
             selected == IF available_columns # {}
                         THEN select_columns(filtered_df, available_columns)
                         ELSE filtered_df
             sorted_dfs == IF config.sort_by \in selected.columns
                           THEN sort_values(selected, config.sort_by, config.ascending)
                           ELSE {selected}
         IN  {PlayerDataFrame(sorted_df) : sorted_df \in sorted_dfs}

\* player_dataframe.py:296-311: top_n(n, sort_by), every result the call may
\* have: self when sort_by is no column, else nlargest wrapped in a new
\* PlayerDataFrame
top_n(df, n, sort_by) ==
    IF sort_by \notin df.columns THEN {Returned(df)}
    ELSE {IF sorted_df.k = "raise" THEN sorted_df ELSE PlayerDataFrame(sorted_df.v) :
              sorted_df \in nlargest(df, n, sort_by)}

-----------------------------------------------------------------------------
(* fpl_api.py and the team routes of app.py *)

\* the dict get_my_team_data returns: the picks of team id as the API has
\* them (version v), and whether problem detection (app.py:687-727) has
\* written its 'problems' annotations into the player dicts
TeamData(id, v, annotated) ==
    [k |-> "team", id |-> id, v |-> v, problems |-> annotated]

\* the team ids requested: a handler touches the entry of one team, the
\* second team shows what it leaves alone
TeamIds == {1, 2}

\* what fpl_client.get_my_team_data(team_id) can return
ApiOutcomes(id) ==
    {None} \cup {TeamData(id, v, FALSE) : v \in 1..MaxTeamVersions}

ErrorPage == [k |-> "error.html"]

\* f'team_{team_id}'
team_cache_key(team_id) == PyStr("team_" \o ToString(team_id))

\* app.py:687-727: player['problems'] = player_problems, written into the
\* dicts of team_data itself
Annotate(td) == [td EXCEPT !.problems = TRUE]

\* my_team that prefers a fresh API answer over the cached entry
my_team_refetch(c, team_id, a) ==
    LET key == team_cache_key(team_id)
        team_data == get(c, key)
    IN  IF a # None
        THEN [cache |-> set(c, key, Annotate(a)), ret |-> Annotate(a), api |-> TRUE]
        ELSE IF team_data = None
             THEN [cache |-> c, ret |-> ErrorPage, api |-> TRUE]
             ELSE [cache |-> set(c, key, Annotate(team_data)),
                   ret |-> Annotate(team_data), api |-> TRUE]

\* my_team(team_id) when the FPL API would answer a: the cache afterwards,
\* the data rendered, and whether the API was called.  The object stored by
\* cache.set is the one the handler then annotates in place.
my_team(c, team_id, a) ==
    LET key == team_cache_key(team_id)
        team_data == get(c, key)
    IN  IF team_data = None
        THEN IF a = None
             THEN [cache |-> c, ret |-> ErrorPage, api |-> TRUE]
             ELSE [cache |-> set(c, key, Annotate(a)), ret |-> Annotate(a), api |-> TRUE]
        ELSE [cache |-> set(c, key, Annotate(team_data)), ret |-> Annotate(team_data),
              api |-> FALSE]

\* refresh_my_team that empties the whole item store
refresh_my_team_clear_all(c, team_id) ==
    [cache |-> [c EXCEPT !.cache_items = <<>>],
     ret |-> team_cache_key(team_id).v \in DOMAIN c.cache_items]

\* refresh_my_team(team_id): the cache afterwards and whether the entry was there
refresh_my_team(c, team_id) == delete(c, team_cache_key(team_id))

-----------------------------------------------------------------------------
(* app.py:47-133: generate_analysis_headlines *)

max_retries == 3
\* the first value of initial_delay, in seconds
first_delay == 1

Positions == {"Goalkeeper", "Defender"}

\* what json.loads can give for a JSON array: up to MaxItems strings, one of
\* which at most is a number instead
JsonItems == {PyStr("a"), PyInt(7)}
JsonLists ==
    {js \in UNION {[1..n -> JsonItems] : n \in 0..MaxItems} :
        Cardinality({i \in 1..Len(js) : js[i].k # "str"}) <= 1}

\* what one POST attempt can give: an exception of the requests library,
\* any other exception, or the text of the first candidate: empty, not
\* JSON, a JSON object, or a JSON array
Outcomes ==
    {[k |-> "RequestException"], [k |-> "Exception"],
     [k |-> "empty"], [k |-> "unparsable"], [k |-> "dict"]}
    \cup {[k |-> "list", items |-> js] : js \in JsonLists}

\* the check of app.py:107 without the length test
ValidHeadlines_any_length(o) ==
    /\ o.k = "list"
    /\ \A i \in 1..Len(o.items) : o.items[i].k = "str"

\* app.py:107
ValidHeadlines(o) ==
    /\ o.k = "list"
    /\ Len(o.items) = 3
    /\ \A i \in 1..Len(o.items) : o.items[i].k = "str"

\* app.py:53
NoDataHeadlines(position_name) ==
    <<PyStr("No top 10 data available for " \o position_name \o "."),
      PyStr("Data still loading..."),
      PyStr("Check back after refresh.")>>

\* app.py:129-133
FallbackHeadlines(position_name) ==
    <<PyStr("Quick Analysis: Top " \o position_name \o " players are performing well."),
      PyStr("Check points, form, and ownership carefully."),
      PyStr("Data loading error or API connection issue.")>>

\* one call of the helper: where it is, its argument, the loop variable,
\* initial_delay, the POSTs made, what each of them answered, the waits
\* (after which attempt, and the bounds of random.uniform), the value returned
IdleHelper == [pc |-> "idle", data_list_empty |-> FALSE, position_name |-> "",
               attempt |-> 0, initial_delay |-> 0,
               posts |-> 0, log |-> <<>>, sleeps |-> <<>>, result |-> None]

\* app.py:52-53 and 88-91: the call up to the first iteration of the loop
generate_analysis_headlines(data_list_empty, position_name) ==
    IF data_list_empty
    THEN [IdleHelper EXCEPT !.pc = "returned", !.position_name = position_name,
                            !.data_list_empty = TRUE,
                            !.result = NoDataHeadlines(position_name)]
    ELSE [IdleHelper EXCEPT !.pc = "loop", !.position_name = position_name,
                            !.initial_delay = first_delay]

\* a backoff that waits without doubling initial_delay
Backoff_no_doubling(h) ==
    [h EXCEPT !.sleeps = Append(@, [after |-> h.attempt + 1, lo |-> h.initial_delay,
                                    hi |-> h.initial_delay * 2])]

\* time.sleep(random.uniform(initial_delay, initial_delay * 2)); initial_delay *= 2
Backoff(h) ==
    [h EXCEPT !.sleeps = Append(@, [after |-> h.attempt + 1, lo |-> h.initial_delay,
                                    hi |-> h.initial_delay * 2]),
              !.initial_delay = @ * 2]

\* the end of an iteration: the next one, or the fallback after the last
Continue(h) ==
    IF h.attempt + 1 < max_retries
    THEN [h EXCEPT !.attempt = @ + 1]
    ELSE [h EXCEPT !.pc = "returned", !.result = FallbackHeadlines(h.position_name)]

\* break: the fallback at once
Break(h) ==
    [h EXCEPT !.pc = "returned", !.result = FallbackHeadlines(h.position_name)]

\* an iteration in which any exception is retried like an invalid response
iteration_retry_all(h, o) ==
    LET posted == [h EXCEPT !.posts = @ + 1, !.log = Append(@, o)]
    IN  IF ValidHeadlines(o)
        THEN [posted EXCEPT !.pc = "returned", !.result = o.items]
        ELSE Continue(Backoff(posted))

\* app.py:91-126: one iteration of the retry loop, the POST answering o
iteration(h, o) ==
    LET posted == [h EXCEPT !.posts = @ + 1, !.log = Append(@, o)]
    IN  CASE o.k = "RequestException" ->
                IF h.attempt < max_retries - 1
                THEN Continue(Backoff(posted))
                ELSE Break(posted)
          [] o.k = "Exception" -> Break(posted)
          [] ValidHeadlines(o) -> [posted EXCEPT !.pc = "returned", !.result = o.items]
          [] OTHER -> Continue(Backoff(posted))

-----------------------------------------------------------------------------
(* app.py:204-434 and 775-791: the headlines of /analysis-overview *)

llm_key == PyStr("llm_headlines")

\* the keys of the headlines dict: 'Overall', 'Defensive', one per position
HeadlineKeys == {"Overall", "Defensive"} \cup Positions

\* a Python dict with string keys
Dict(f) == [k |-> "dict", v |-> f]

\* headlines = {}
EmptyDict == [key \in {} |-> None]

\* a list the LLM helper took from a valid response
LlmHeadlines == <<PyStr("a"), PyStr("a"), PyStr("a")>>

\* what generate_analysis_headlines(data_list, position_name) returns during
\* a request in which the LLM answers validly (ok) or not at all
HelperResult(position_name, ok) ==
    IF ok THEN LlmHeadlines ELSE FallbackHeadlines(position_name)

\* app.py:244-252: the headlines rendered when no data could be loaded
DataNotLoaded ==
    Dict([key \in HeadlineKeys |->
            IF key = "Overall"
            THEN <<PyStr("Data not loaded."), PyStr("Please check back later."),
                   PyStr("Error: Data source empty.")>>
            ELSE <<PyStr("..."), PyStr("..."), PyStr("...")>>])

\* app.py:330
DefensiveMissing ==
    <<PyStr("Defensive stat column missing."), PyStr("Update your data module."),
      PyStr("Table data will be empty.")>>

\* app.py:418
NoPositionData(pos) ==
    <<PyStr("No data for " \o pos \o " yet."), PyStr("Waiting for FPL data..."),
      PyStr("Try a manual refresh.")>>

\* what a table with rows holds, told by its identity: a table with an odd id
\* has the 'defensive_contribution' column and rows of every position, one
\* with an even id has neither that column nor a Defender
HasColumn(t, col) == col = "defensive_contribution" => t.id % 2 = 1
filter_by_position_len(t, pos) == IF pos = "Defender" THEN t.id % 2 ELSE t.len

\* the name under which the helper is asked for the headline of a key
HelperName(key) ==
    CASE key = "Overall" -> "Overall Top 10"
      [] key = "Defensive" -> "Defensive Contribution"
      [] OTHER -> key

\* app.py:302-303, 308-330, 383-418: the keys for which the table has data
\* to send to the helper; the others get a fixed text
HelperAsked(t, key) ==
    CASE key = "Overall" -> TRUE
      [] key = "Defensive" -> HasColumn(t, "defensive_contribution")
      [] OTHER -> filter_by_position_len(t, key) > 0

\* analysis_overview that regenerates the headlines on every request
analysis_overview_regenerate(c, t, f, ok) ==
    LET l == load_fpl_data(c, t, f)
        player_df == l.ret
        filled == Dict([key \in HeadlineKeys |->
                         IF HelperAsked(player_df, key)
                         THEN HelperResult(HelperName(key), ok)
                         ELSE IF key = "Defensive" THEN DefensiveMissing
                              ELSE NoPositionData(key)])
    IN  IF player_df.len = 0
        THEN [cache |-> l.cache, ret |-> DataNotLoaded, fetched |-> l.fetched,
              helper |-> {}, stored |-> FALSE]
        ELSE [cache |-> set(l.cache, llm_key, filled), ret |-> filled,
              fetched |-> l.fetched,
              helper |-> {key \in HeadlineKeys : HelperAsked(player_df, key)},
              stored |-> TRUE]

\* analysis_overview() at time t when the upstream would answer f and the LLM
\* answers validly (ok) or not: the cache afterwards, the headlines rendered,
\* whether upstream was asked, the keys for which the helper was called, and
\* whether cache.set('llm_headlines', ...) ran
analysis_overview(c, t, f, ok) ==
    LET cached_headlines == get(c, llm_key)
        headlines == IF cached_headlines # None THEN cached_headlines.v ELSE EmptyDict
        l == load_fpl_data(c, t, f)
        player_df == l.ret
        missing == HeadlineKeys \ DOMAIN headlines
        filled == Dict([key \in HeadlineKeys |->
                         IF key \in DOMAIN headlines THEN headlines[key]
                         ELSE IF HelperAsked(player_df, key)
                         THEN HelperResult(HelperName(key), ok)
                         ELSE IF key = "Defensive" THEN DefensiveMissing
                              ELSE NoPositionData(key)])
    IN  IF player_df.len = 0
        THEN [cache |-> l.cache,
              ret |-> IF DOMAIN headlines = {} THEN DataNotLoaded
                      ELSE cached_headlines,
              fetched |-> l.fetched, helper |-> {}, stored |-> FALSE]
        ELSE [cache |-> IF cached_headlines = None
                        THEN set(l.cache, llm_key, filled) ELSE l.cache,
              ret |-> filled, fetched |-> l.fetched,
              helper |-> {key \in missing : HelperAsked(player_df, key)},
              stored |-> cached_headlines = None]

\* manual_llm_refresh(): the cache afterwards and whether the entry was there
manual_llm_refresh(c) == delete(c, llm_key)

-----------------------------------------------------------------------------
(* History records *)

NoFetch == <<None, None>>

NoCall == [op |-> "none", arg |-> 0, due |-> FALSE, fetched |-> FALSE,
           fetch |-> NoFetch, api |-> FALSE, ret |-> None,
           helper |-> {}, stored |-> FALSE]

\* what the history keeps of an upstream answer: a table with rows and its
\* gameweek as they are, of a table without rows only that it had none
Answer(f) ==
    IF f[1] # None /\ f[1].len = 0 THEN <<EmptyPlayerDataFrame, None>> ELSE f

\* a data handler ran: was a refresh due on entry, did it ask upstream, what
\* did upstream answer, what did it return
DataCall(op, due, fetched, f, ret) ==
    [op |-> op, arg |-> 0, due |-> due, fetched |-> fetched,
     fetch |-> IF fetched THEN Answer(f) ELSE NoFetch, api |-> FALSE, ret |-> ret,
     helper |-> {}, stored |-> FALSE]

\* a team handler ran for team id: did it call the FPL API, what did it render
TeamCall(op, id, api, ret) ==
    [op |-> op, arg |-> id, due |-> FALSE, fetched |-> FALSE,
     fetch |-> NoFetch, api |-> api, ret |-> ret, helper |-> {}, stored |-> FALSE]

\* analysis_overview ran: the data call it made, the keys for which it called
\* the LLM helper, and whether it stored the headlines
HeadlinesCallOf(due, f, r) ==
    [DataCall("analysis_overview", due, r.fetched, f, r.ret)
        EXCEPT !.helper = r.helper, !.stored = r.stored]

\* redirect(...)
Redirect(to) == [k |-> "redirect", to |-> to]

\* a clock query ran at time at: should_refresh (result sr, and the next
\* update time it computes on its False path) or cache_status
NoProbe == [op |-> "none", at |-> 0, sr |-> FALSE, next |-> None]

\* a request thread: where it is in cache.get() and should_refresh(), what it
\* has read so far, which update() wrote each value it read (0: the
\* constructor), and whether an update() was under way or wrote a field
\* while the request was reading
IdleReader == [pc |-> "idle", data |-> None, current_gw |-> None, last_updated |-> None,
               sData |-> 0, sGw |-> 0, sLu |-> 0, overlap |-> FALSE]

\* the refresh thread: where it is in cache.update(data, gw), its arguments,
\* and the number of update() calls started so far
IdleWriter == [pc |-> "idle", data |-> None, gw |-> None, n |-> 0]

NoStamp == [data |-> 0, current_gw |-> 0, last_updated |-> 0]

\* no gameweek search has started
IdleSearch == [pc |-> "idle"]

\* no table has been built
NoFrame == [pc |-> "none"]

\* the history of refreshes: a good fetch becomes the latest snapshot
Snapshot(fetched, f) == IF fetched /\ FetchGood(f) THEN f ELSE lastGood

-----------------------------------------------------------------------------
(* The application, one handler at a time *)

\* the application starts one clock step before the first update instant
StartTime == update_hours[1] * TicksPerHour - ClockStep
\* the last clock reading of the application
MaxTime == StartTime + MaxClockSteps * ClockStep

Init ==
    /\ now = StartTime
    /\ cache = SmartDataCache
    /\ call = NoCall
    /\ lastGood = <<None, None>>
    /\ probe = NoProbe
    /\ reader = IdleReader
    /\ writer = IdleWriter
    /\ stamp = NoStamp
    /\ llm = IdleHelper
    /\ ops = <<>>
    /\ search = IdleSearch
    /\ frame = NoFrame

\* time passes: the clock moves on by a third of the gap between two
\* update instants, so that it reads 01:00, 05:00, 09:00, 13:00, 17:00, 21:00
Tick ==
    /\ now + ClockStep <= MaxTime
    /\ now' = now + ClockStep
    /\ call' = [NoCall EXCEPT !.op = "tick"]
    /\ UNCHANGED <<cache, lastGood, probe, reader, writer, stamp, llm, ops, search, frame>>

\* any route calling load_fpl_data(cache)
LoadFplData ==
    \E f \in FetchOutcomes :
        LET r == load_fpl_data(cache, now, f)
        IN  /\ cache' = r.cache
            /\ call' = DataCall("load_fpl_data", should_refresh(cache, now),
                                r.fetched, f, r.ret)
            /\ lastGood' = Snapshot(r.fetched, f)
            /\ UNCHANGED <<now, probe, reader, writer, stamp, llm, ops, search, frame>>

\* the instants of the two cron triggers (hour=5 and hour=17, minute=0)
IsUpdateInstant(t) ==
    \E i \in 1..Len(update_hours) : t % DayTicks = update_hours[i] * TicksPerHour

\* app.py:149-168: the cron jobs run scheduled_data_refresh(cache)
Scheduler ==
    /\ IsUpdateInstant(now)
    /\ \E f \in FetchOutcomes :
        LET r == scheduled_data_refresh(cache, now, f)
        IN  /\ cache' = r.cache
            /\ call' = DataCall("scheduler", should_refresh(cache, now),
                                r.fetched, f, r.ret)
            /\ lastGood' = Snapshot(r.fetched, f)
    /\ UNCHANGED <<now, probe, reader, writer, stamp, llm, ops, search, frame>>

\* app.py:765-773: /refresh-now
ManualRefresh ==
    /\ \E f \in FetchOutcomes :
        LET r == scheduled_data_refresh(cache, now, f)
        IN  /\ cache' = r.cache
            /\ call' = DataCall("manual_refresh", should_refresh(cache, now),
                                r.fetched, f, r.ret)
            /\ lastGood' = Snapshot(r.fetched, f)
    /\ UNCHANGED <<now, probe, reader, writer, stamp, llm, ops, search, frame>>

\* app.py:646-746: /my-team/<team_id>
MyTeam ==
    /\ \E id \in TeamIds : \E a \in ApiOutcomes(id) :
        LET r == my_team(cache, id, a)
        IN  /\ cache' = r.cache
            /\ call' = TeamCall("my_team", id, r.api, r.ret)
    /\ UNCHANGED <<now, lastGood, probe, reader, writer, stamp, llm, ops, search, frame>>

\* app.py:748-763: /my-team/refresh/<team_id>
RefreshMyTeam ==
    /\ \E id \in TeamIds :
        LET r == refresh_my_team(cache, id)
        IN  /\ cache' = r.cache
            /\ call' = TeamCall("refresh_my_team", id, FALSE,
                                Redirect("/my-team/" \o ToString(id)))
    /\ UNCHANGED <<now, lastGood, probe, reader, writer, stamp, llm, ops, search, frame>>

Next ==
    \/ Tick
    \/ LoadFplData
    \/ Scheduler
    \/ ManualRefresh
    \/ MyTeam
    \/ RefreshMyTeam

Spec == Init /\ [][Next]_vars

-----------------------------------------------------------------------------
(* The application with the headlines of /analysis-overview *)

\* app.py:204-434: /analysis-overview
AnalysisOverview ==
    /\ \E f \in FetchOutcomes : \E ok \in BOOLEAN :
        LET r == analysis_overview(cache, now, f, ok)
        IN  /\ cache' = r.cache
            /\ call' = HeadlinesCallOf(should_refresh(cache, now), f, r)
            /\ lastGood' = Snapshot(r.fetched, f)
    /\ UNCHANGED <<now, probe, reader, writer, stamp, llm, ops, search, frame>>

\* app.py:775-791: /llm-refresh-now
ManualLlmRefresh ==
    /\ cache' = manual_llm_refresh(cache).cache
    /\ call' = [NoCall EXCEPT !.op = "manual_llm_refresh",
                              !.ret = Redirect("/analysis-overview")]
    /\ UNCHANGED <<now, lastGood, probe, reader, writer, stamp, llm, ops, search, frame>>

\* time passes from the start to the first update instant, where a refresh
\* falls due and the cron job runs
TickToUpdate ==
    /\ now = StartTime
    /\ now' = update_hours[1] * TicksPerHour
    /\ call' = [NoCall EXCEPT !.op = "tick"]
    /\ UNCHANGED <<cache, lastGood, probe, reader, writer, stamp, llm, ops, search, frame>>

NextItems ==
    \/ TickToUpdate
    \/ LoadFplData
    \/ Scheduler
    \/ ManualRefresh
    \/ MyTeam
    \/ RefreshMyTeam
    \/ AnalysisOverview
    \/ ManualLlmRefresh

SpecItems == Init /\ [][NextItems]_vars

-----------------------------------------------------------------------------
(* The keyed item store under any sequence of set, delete and get calls *)

\* the keys and the values of the calls: two of the program's keys; a team
\* dict, a headlines dict, and None, which set() stores like any value
StoreKeys == {llm_key, team_cache_key(1)}
StoreValues ==
    {None, TeamData(1, 1, FALSE), Dict([key \in HeadlineKeys |-> LlmHeadlines])}

InitStore == Init

\* cache.set(key, value)
StoreSet ==
    /\ Len(ops) < MaxOps
    /\ \E key \in StoreKeys : \E value \in StoreValues :
        /\ cache' = set(cache, key, value)
        /\ call' = [NoCall EXCEPT !.op = "set", !.arg = key]
        /\ ops' = Append(ops, [op |-> "set", key |-> key, value |-> value])
    /\ UNCHANGED <<now, lastGood, probe, reader, writer, stamp, llm, search, frame>>

\* cache.delete(key)
StoreDelete ==
    /\ Len(ops) < MaxOps
    /\ \E key \in StoreKeys :
        LET r == delete(cache, key)
        IN  /\ cache' = r.cache
            /\ call' = [NoCall EXCEPT !.op = "delete", !.arg = key, !.ret = r.ret]
            /\ ops' = Append(ops, [op |-> "delete", key |-> key, value |-> None])
    /\ UNCHANGED <<now, lastGood, probe, reader, writer, stamp, llm, search, frame>>

\* cache.get(key)
StoreGet ==
    /\ \E key \in StoreKeys :
        call' = [NoCall EXCEPT !.op = "get", !.arg = key, !.ret = get(cache, key)]
    /\ UNCHANGED <<now, cache, lastGood, probe, reader, writer, stamp, llm, ops,
                   search, frame>>

NextStore ==
    \/ StoreSet
    \/ StoreDelete
    \/ StoreGet

SpecStore == InitStore /\ [][NextStore]_vars

-----------------------------------------------------------------------------
(* Gameweek detection over every estimate and a few upstream files *)

\* (datetime.now() - season_start).days // 7: from a clock before the start
\* of the season to one after its last gameweek
Weeks == -1..LastGW

\* the upstream: valid files for a run of consecutive gameweeks (or for
\* none), alone or followed by a file whose Content-Length is no number (with
\* no valid file: one such file anywhere); or valid files for any two gameweeks
Worlds ==
    {[valid |-> lo..hi, bad |-> {}] : lo \in 1..LastGW, hi \in 0..LastGW}
    \cup {[valid |-> lo..hi, bad |-> {hi + 1}] : lo \in 1..LastGW, hi \in 0..(LastGW - 1)}
    \cup {[valid |-> {a, b}, bad |-> {}] : a, b \in 1..LastGW}

\* the process is up, the upstream is in any of these states
InitGW ==
    /\ now = StartTime
    /\ cache = SmartDataCache
    /\ call = NoCall
    /\ lastGood = <<None, None>>
    /\ probe = NoProbe
    /\ reader = IdleReader
    /\ writer = IdleWriter
    /\ stamp = NoStamp
    /\ llm = IdleHelper
    /\ ops = <<>>
    /\ frame = NoFrame
    /\ \E world \in Worlds :
        search = [pc |-> "idle", world |-> world, check |-> Answers(world)]

\* github_data.py:90-125: determine_gw_info(), find_latest_gw_file() within
DetermineGwInfo ==
    /\ search.pc = "idle"
    /\ \E weeks_since_start \in Weeks :
        LET r == find_latest_gw_file(search.check, weeks_since_start)
        IN  search' = [pc |-> "done", weeks_since_start |-> weeks_since_start,
                       world |-> search.world, check |-> search.check,
                       error |-> r.error, window |-> r.window, scan |-> r.scan,
                       latest_file_gw |-> r.ret,
                       gw_info |-> determine_gw_info(r.ret)]
    /\ UNCHANGED <<now, cache, call, lastGood, probe, reader, writer, stamp, llm, ops,
                   frame>>

NextGW == DetermineGwInfo

SpecGW == InitGW /\ [][NextGW]_vars

-----------------------------------------------------------------------------
(* The merge over small CSV files *)

PlayerIds == {1, 2}
TeamCodes == {1, 2}

\* the short name teams.csv gives a team
short_name(code) == IF code = 1 THEN "ARS" ELSE "LIV"

\* playerstats.csv, players.csv (a player's team code may be missing) and
\* teams.csv, each of at most MaxRows rows
StatsFiles == SeqsUpTo({[id |-> id] : id \in PlayerIds}, MaxRows)
PlayersFiles ==
    SeqsUpTo({[player_id |-> id, team_code |-> c] :
                id \in PlayerIds, c \in {NaN} \cup {PyInt(code) : code \in TeamCodes}},
             MaxRows)
TeamsFiles ==
    SeqsUpTo({[code |-> code, short_name |-> short_name(code)] : code \in TeamCodes},
             MaxRows)

InitMerge == Init

\* github_data.py:130-221: fetch_data_from_github(), the three files read
FetchMerge ==
    /\ frame.pc = "none"
    /\ \E current_players \in StatsFiles : \E players_master \in PlayersFiles :
       \E teams_df \in TeamsFiles :
        frame' = [pc |-> "merged", current_players |-> current_players,
                  players_master |-> players_master, teams_df |-> teams_df,
                  analysis_df |-> merged_table(current_players, players_master,
                                               teams_df)]
    /\ UNCHANGED <<now, cache, call, lastGood, probe, reader, writer, stamp, llm, ops,
                   search>>

NextMerge == FetchMerge

SpecMerge == InitMerge /\ [][NextMerge]_vars

-----------------------------------------------------------------------------
(* PlayerDataFrame over small tables *)

\* the cells of the two columns: missing, negative, zero, positive
Cells == {NaN, Number(-2), Number(0), Number(3)}

\* the tables wrapped: with or without either column, at most MaxRows rows
DataFrames ==
    UNION {{[columns |-> columns, rows |-> rows] :
                rows \in SeqsUpTo([columns -> Cells], MaxRows)} :
           columns \in SUBSET {"total_points", "now_cost"}}

InitFrame == Init

\* player_dataframe.py:21-36: PlayerDataFrame(df)
NewPlayerDataFrame ==
    /\ frame.pc = "none"
    /\ \E df \in DataFrames :
        LET made == PlayerDataFrame(df)
        IN  frame' = IF made.k = "raise"
                     THEN [pc |-> "raised", arg |-> df, exc |-> made.exc]
                     ELSE [pc |-> "wrapped", arg |-> df, df |-> made.v]
    /\ UNCHANGED <<now, cache, call, lastGood, probe, reader, writer, stamp, llm, ops,
                   search>>

NextFrame == NewPlayerDataFrame

SpecFrame == InitFrame /\ [][NextFrame]_vars

-----------------------------------------------------------------------------
(* Views and top_n over small tables *)

\* rows of season statistics: played too little or enough, three totals at
\* one price, three levels of form
SeasonRows ==
    [minutes : {Number(0), Number(180)},
     total_points : {Number(0), Number(50), Number(100)},
     now_cost : {Number(50)},
     form : {Number(1), Number(4), Number(10)},
     expected_goal_involvements : {Number(1)},
     current_gw : {Number(2)}]

\* rows of ownership: inside and outside the range of the differentials,
\* with or without expected goal involvements
OwnershipRows ==
    [minutes : {Number(90), Number(180)},
     selected_by_percent : {Number(10), Number(11)},
     expected_goal_involvements : {NaN, Number(0), Number(1)}]

\* rows of a squad: in the starting eleven, on the bench, not in the squad
SquadRows ==
    [my_team_position : {NaN, Number(1), Number(12)},
     total_points : {NaN, Number(5)}]

\* the tables of at most n of the rows, each row labelled with its place
TablesOf(rows, columns, n) ==
    {[columns |-> columns,
      rows |-> [i \in 1..Len(cells) |->
                  [c \in columns \cup {"index"} |->
                      IF c = "index" THEN i ELSE cells[i][c]]]] :
        cells \in SeqsUpTo(rows, n)}

\* the tables of at most n rows of one kind
ViewTables(n) ==
    TablesOf(SeasonRows, {"minutes", "total_points", "now_cost", "form",
                          "expected_goal_involvements", "current_gw"}, n)
    \cup TablesOf(OwnershipRows, {"minutes", "selected_by_percent",
                                  "expected_goal_involvements"}, n)
    \cup TablesOf(SquadRows, {"my_team_position", "total_points"}, n)

\* the names asked for: the configured views and one that is not configured
ViewNames == DOMAIN VIEW_CONFIGS \cup {"no_such_view"}

\* the metrics asked for: two numbers, a column no table has, a column of text
Metrics == {"total_points", "value_score", "save_value_per_million", "news"}

InitView == Init

\* player_dataframe.py:21-36: PlayerDataFrame(df)
WrapTable ==
    /\ frame.pc = "none"
    /\ \E df \in ViewTables(MaxViewRows) :
        LET made == PlayerDataFrame(df)
        IN  frame' = IF made.k = "raise"
                     THEN [pc |-> "raised", arg |-> df, exc |-> made.exc]
                     ELSE [pc |-> "wrapped", arg |-> df, df |-> made.v]
    /\ UNCHANGED <<now, cache, call, lastGood, probe, reader, writer, stamp, llm, ops,
                   search>>

\* player_dataframe.py:128-178: get_view(view_name)
GetView ==
    /\ frame.pc = "wrapped"
    /\ \E view_name \in ViewNames : \E result \in get_view(frame.df, view_name) :
        frame' = [pc |-> "viewed", self |-> frame.df, view_name |-> view_name,
                  result |-> result]
    /\ UNCHANGED <<now, cache, call, lastGood, probe, reader, writer, stamp, llm, ops,
                   search>>

\* player_dataframe.py:296-311: top_n(n, sort_by)
TopN ==
    /\ frame.pc = "wrapped"
    /\ \E n \in 0..MaxTop : \E sort_by \in Metrics :
       \E result \in top_n(frame.df, n, sort_by) :
        frame' = [pc |-> "top", self |-> frame.df, n |-> n, sort_by |-> sort_by,
                  result |-> result]
    /\ UNCHANGED <<now, cache, call, lastGood, probe, reader, writer, stamp, llm, ops,
                   search>>

NextView == WrapTable \/ GetView \/ TopN

SpecView == InitView /\ [][NextView]_vars

-----------------------------------------------------------------------------
(* The refresh policy as a function of last_updated and the clock *)

MaxProbeTime == MaxProbeDays * DayTicks

\* any clock reading, and a cache that is empty or was filled at any
\* earlier (or the same) time
InitTime ==
    /\ now \in 0..MaxProbeTime
    /\ \/ cache = SmartDataCache
       \/ \E u \in 0..now : cache = update(SmartDataCache, Table(1, 1), PyInt(1), u)
    /\ call = NoCall
    /\ lastGood = <<None, None>>
    /\ probe = NoProbe
    /\ reader = IdleReader
    /\ writer = IdleWriter
    /\ stamp = NoStamp
    /\ llm = IdleHelper
    /\ ops = <<>>
    /\ search = IdleSearch
    /\ frame = NoFrame

\* cache_module.py:27-52: get_next_update_time is called on the False path
ShouldRefresh ==
    /\ probe.op = "none"
    /\ probe' = [op |-> "should_refresh", at |-> now,
                 sr |-> should_refresh(cache, now),
                 next |-> IF should_refresh(cache, now)
                          THEN None
                          ELSE DateTime(get_next_update_time(now))]
    /\ UNCHANGED <<now, cache, call, lastGood, reader, writer, stamp, llm, ops, search, frame>>

\* app.py:793-813: /cache-status reports the next update time
CacheStatus ==
    /\ probe.op = "none"
    /\ ~is_empty(cache)
    /\ probe' = [op |-> "cache_status", at |-> now, sr |-> FALSE,
                 next |-> DateTime(get_next_update_time(now))]
    /\ UNCHANGED <<now, cache, call, lastGood, reader, writer, stamp, llm, ops, search, frame>>

\* after a query the clock is followed tick by tick for the length of a
\* window, the cache left alone
TimePasses ==
    /\ probe.op # "none"
    /\ now < probe.at + Window
    /\ now' = now + 1
    /\ UNCHANGED <<cache, call, lastGood, probe, reader, writer, stamp, llm, ops, search, frame>>

NextTime ==
    \/ ShouldRefresh
    \/ CacheStatus
    \/ TimePasses

SpecTime == InitTime /\ [][NextTime]_vars

-----------------------------------------------------------------------------
(* The refresh thread and a request thread, statement by statement.  The   *)
(* scheduler runs its jobs in its own thread; nothing guards the cache.    *)

InitRace == Init

Reading == reader.pc \in {"get_data", "get_current_gw", "read_last_updated"}

\* github_data.py:270-273: a good fetch, then cache.update(player_df, latest_gw)
update_begin ==
    /\ writer.pc = "idle"
    /\ writer.n < MaxUpdates
    /\ \E f \in FetchOutcomes :
        /\ FetchGood(f)
        /\ writer' = [pc |-> "data", data |-> f[1], gw |-> f[2], n |-> writer.n + 1]
    /\ UNCHANGED <<now, cache, call, lastGood, probe, reader, stamp, llm, ops, search, frame>>

\* cache_module.py:55
update_data ==
    /\ writer.pc = "data"
    /\ cache' = [cache EXCEPT !.data = writer.data]
    /\ stamp' = [stamp EXCEPT !.data = writer.n]
    /\ writer' = [writer EXCEPT !.pc = "current_gw"]
    /\ reader' = [reader EXCEPT !.overlap = @ \/ Reading]
    /\ UNCHANGED <<now, call, lastGood, probe, llm, ops, search, frame>>

\* an update() that never assigns current_gw
update_current_gw_skipped ==
    /\ writer.pc = "current_gw"
    /\ writer' = [writer EXCEPT !.pc = "last_updated"]
    /\ reader' = [reader EXCEPT !.overlap = @ \/ Reading]
    /\ UNCHANGED <<now, cache, stamp, call, lastGood, probe, llm, ops, search, frame>>

\* cache_module.py:56
update_current_gw ==
    /\ writer.pc = "current_gw"
    /\ cache' = [cache EXCEPT !.current_gw = writer.gw]
    /\ stamp' = [stamp EXCEPT !.current_gw = writer.n]
    /\ writer' = [writer EXCEPT !.pc = "last_updated"]
    /\ reader' = [reader EXCEPT !.overlap = @ \/ Reading]
    /\ UNCHANGED <<now, call, lastGood, probe, llm, ops, search, frame>>

\* cache_module.py:57
update_last_updated ==
    /\ writer.pc = "last_updated"
    /\ cache' = [cache EXCEPT !.last_updated = DateTime(now)]
    /\ stamp' = [stamp EXCEPT !.last_updated = writer.n]
    /\ writer' = [writer EXCEPT !.pc = "idle"]
    /\ reader' = [reader EXCEPT !.overlap = @ \/ Reading]
    /\ UNCHANGED <<now, call, lastGood, probe, llm, ops, search, frame>>

\* cache_module.py:71 (called from github_data.py:234): if self.data is not None
get_check ==
    /\ reader.pc = "idle"
    /\ reader' = IF cache.data # None
                  THEN [IdleReader EXCEPT !.pc = "get_data",
                                          !.overlap = writer.pc \in {"current_gw", "last_updated"}]
                  ELSE [IdleReader EXCEPT !.pc = "done"]
    /\ UNCHANGED <<now, cache, call, lastGood, probe, writer, stamp, llm, ops, search, frame>>

\* cache_module.py:72: return self.data, ...
get_data ==
    /\ reader.pc = "get_data"
    /\ reader' = [reader EXCEPT !.pc = "get_current_gw",
                                 !.data = cache.data, !.sData = stamp.data]
    /\ UNCHANGED <<now, cache, call, lastGood, probe, writer, stamp, llm, ops, search, frame>>

\* cache_module.py:72: ..., self.current_gw
get_current_gw ==
    /\ reader.pc = "get_current_gw"
    /\ reader' = [reader EXCEPT !.pc = "read_last_updated",
                                 !.current_gw = cache.current_gw, !.sGw = stamp.current_gw]
    /\ UNCHANGED <<now, cache, call, lastGood, probe, writer, stamp, llm, ops, search, frame>>

\* cache_module.py:28 (called from github_data.py:238): self.last_updated
read_last_updated ==
    /\ reader.pc = "read_last_updated"
    /\ reader' = [reader EXCEPT !.pc = "done",
                                 !.last_updated = cache.last_updated, !.sLu = stamp.last_updated]
    /\ UNCHANGED <<now, cache, call, lastGood, probe, writer, stamp, llm, ops, search, frame>>

\* the request is answered; the thread takes the next request
request_done ==
    /\ reader.pc = "done"
    /\ reader' = IdleReader
    /\ UNCHANGED <<now, cache, call, lastGood, probe, writer, stamp, llm, ops, search, frame>>

NextRace ==
    \/ update_begin
    \/ update_data
    \/ update_current_gw
    \/ update_last_updated
    \/ get_check
    \/ get_data
    \/ get_current_gw
    \/ read_last_updated
    \/ request_done

SpecRace == InitRace /\ [][NextRace]_vars

-----------------------------------------------------------------------------
(* The headline helper, one loop iteration at a time *)

InitLLM == Init

HeadlinesCall ==
    /\ llm.pc = "idle"
    /\ \E e \in BOOLEAN, p \in Positions : llm' = generate_analysis_headlines(e, p)
    /\ UNCHANGED <<now, cache, call, lastGood, probe, reader, writer, stamp, ops, search, frame>>

HeadlinesAttempt ==
    /\ llm.pc = "loop"
    /\ \E o \in Outcomes : llm' = iteration(llm, o)
    /\ UNCHANGED <<now, cache, call, lastGood, probe, reader, writer, stamp, ops, search, frame>>

\* the caller takes the result; the helper can be called again
HeadlinesReturn ==
    /\ llm.pc = "returned"
    /\ llm' = IdleHelper
    /\ UNCHANGED <<now, cache, call, lastGood, probe, reader, writer, stamp, ops, search, frame>>

NextLLM ==
    \/ HeadlinesCall
    \/ HeadlinesAttempt
    \/ HeadlinesReturn

SpecLLM == InitLLM /\ [][NextLLM]_vars

\* a running call goes on running: its POST times out after 15 seconds and
\* its sleeps are finite
SpecLLMFair == SpecLLM /\ WF_vars(HeadlinesAttempt)

-----------------------------------------------------------------------------
(* Vocabulary of the properties *)

\* some daily 05:00 or 17:00 UTC instant T, on any day, has u < T <= t
CrossedInstant(u, t) == \E T \in (u + 1)..t : IsUpdateInstant(T)

DataHandlers == {"load_fpl_data", "scheduler", "manual_refresh"}

MainFields(c) == <<c.data, c.current_gw, c.last_updated>>

-----------------------------------------------------------------------------
(* Properties of the refresh policy *)

\* C1: for last_updated <= now, should_refresh() is True exactly when
\* last_updated is None or some 05:00/17:00 UTC instant T of any day has
\* last_updated < T <= now; the scan of today's and yesterday's instants
\* misses none.
C1_ShouldRefreshExact ==
    probe.op = "should_refresh"
    => probe.sr = ( \/ cache.last_updated = None
                    \/ CrossedInstant(cache.last_updated.v, probe.at) )

\* a refresh found due more than a day after the last update
C1_Witness ==
    /\ probe.op = "should_refresh"
    /\ probe.sr
    /\ cache.last_updated # None
    /\ probe.at - cache.last_updated.v > DayTicks

\* C6: get_next_update_time() is the least 05:00/17:00 UTC instant strictly
\* after now and at most 12 hours ahead; and when should_refresh() returned
\* False at some time, then with the cache left alone it returns False at
\* every time before that next update time and True at it.
C6_FreshUntilNextUpdate ==
    probe.next # None
    => /\ probe.next.v > probe.at
       /\ IsUpdateInstant(probe.next.v)
       /\ ~CrossedInstant(probe.at, probe.next.v - 1)
       /\ probe.next.v - probe.at <= 12 * TicksPerHour
       /\ (probe.op = "should_refresh" /\ now < probe.next.v)
             => ~should_refresh(cache, now)
       /\ (probe.op = "should_refresh" /\ now = probe.next.v)
             => should_refresh(cache, now)

\* the clock has reached the update time announced by a False should_refresh
C6_Witness ==
    /\ probe.op = "should_refresh"
    /\ ~probe.sr
    /\ probe.next # None
    /\ now = probe.next.v
    /\ should_refresh(cache, now)

-----------------------------------------------------------------------------
(* Properties of unsynchronized access *)

\* the request holds values written by different update() calls
Torn ==
    /\ reader.pc = "done"
    /\ reader.data # None
    /\ reader.sData # reader.sGw \/ reader.sData # reader.sLu

\* C7: nothing synchronizes the refresh thread with requests: a request can
\* observe the table of one update() with the current_gw or last_updated of
\* another (C7_Witness), and it does so only when an update() was under way
\* or wrote a field while the request was reading.
C7_TornOnlyUnderUpdate ==
    Torn => reader.overlap

\* the table of one update() observed with the gameweek of a different one
C7_Witness ==
    /\ reader.pc = "done"
    /\ reader.sData >= 1
    /\ reader.sGw >= 1
    /\ reader.sData # reader.sGw
    /\ reader.data # None

-----------------------------------------------------------------------------
(* Properties of the headline helper *)

\* a valid JSON array of exactly three strings
IsThreeStrings(o) ==
    /\ o.k = "list"
    /\ Len(o.items) = 3
    /\ \A i \in 1..3 : o.items[i].k = "str"

C8_Bounded ==
    /\ llm.posts <= max_retries
    /\ llm.posts = Len(llm.log)
    /\ \A i \in 1..Len(llm.log) :
           llm.log[i].k = "Exception" => i = Len(llm.log) /\ llm.pc = "returned"
    /\ llm.pc = "returned" =>
         /\ llm.data_list_empty => llm.posts = 0
         /\ (~llm.data_list_empty /\ \A i \in 1..Len(llm.log) : ~IsThreeStrings(llm.log[i]))
               => llm.result = FallbackHeadlines(llm.position_name)

\* C8: generate_analysis_headlines returns after at most 3 POST attempts;
\* when no attempt gave a valid JSON array of three strings it returns the
\* fixed fallback list; an exception that is not a request error ends the
\* loop at once; an empty data_list makes no request.
C8_HeadlinesTerminate ==
    /\ []C8_Bounded
    /\ (llm.pc = "loop") ~> (llm.pc = "returned")

\* the fallback returned straight after an unexpected exception on the
\* second attempt
C8_Witness ==
    /\ llm.pc = "returned"
    /\ llm.posts = 2
    /\ llm.log[2].k = "Exception"
    /\ llm.result = FallbackHeadlines(llm.position_name)

\* C9: on every path (success, invalid response, request error, unexpected
\* exception, empty input) the helper returns a list of exactly three strings.
C9_ThreeStrings ==
    llm.pc = "returned"
    => /\ Len(llm.result) = 3
       /\ \A i \in 1..3 : llm.result[i].k = "str"

\* three headlines of the LLM returned after an invalid first answer
C9_Witness ==
    /\ llm.pc = "returned"
    /\ llm.posts = 2
    /\ llm.log[1].k = "list"
    /\ llm.log[2].k = "list"
    /\ llm.result = llm.log[2].items

-----------------------------------------------------------------------------
(* Properties of the data cache *)

\* C2: after a successful update at time u (cache.last_updated), a
\* load_fpl_data call at a time t with no 05:00/17:00 UTC instant in (u, t]
\* asks nothing of upstream, returns the cached table, and leaves the cache
\* as it is.
C2_FreshCacheServed ==
    [][ ( /\ call'.op = "load_fpl_data"
          /\ cache.data # None
          /\ cache.last_updated # None
          /\ cache.last_updated.v <= now
          /\ ~CrossedInstant(cache.last_updated.v, now) )
        => ( /\ ~call'.fetched
             /\ call'.ret = cache.data
             /\ cache' = cache ) ]_vars

\* a load served from the cache some time after the update that filled it
C2_Witness ==
    /\ call.op = "load_fpl_data"
    /\ ~call.fetched
    /\ call.ret = cache.data
    /\ cache.last_updated # None
    /\ cache.last_updated.v < now

\* C3: when the upstream fetch of load_fpl_data fails (None or a table
\* without rows), the call returns the previously cached table if there is
\* one and an empty table otherwise, and data, current_gw and last_updated
\* stay as they were.
C3_FailedFetchFallsBack ==
    [][ ( /\ call'.op = "load_fpl_data"
          /\ call'.fetched
          /\ ~FetchGood(call'.fetch) )
        => ( /\ IF cache.data # None
                THEN call'.ret = cache.data
                ELSE call'.ret.k = "PlayerDataFrame" /\ call'.ret.len = 0
             /\ MainFields(cache') = MainFields(cache) ) ]_vars

\* a stale table served after upstream answered with a table without rows
C3_Witness ==
    /\ call.op = "load_fpl_data"
    /\ call.fetched
    /\ call.fetch[1] # None
    /\ call.fetch[1].len = 0
    /\ cache.data # None
    /\ call.ret = cache.data

\* C4: scheduled_data_refresh (cron job and /refresh-now) always asks
\* upstream, whether or not a refresh is due; a failed or empty fetch leaves
\* data, current_gw and last_updated alone, a good one replaces all three.
C4_ScheduledRefreshAlwaysFetches ==
    [][ call'.op \in {"scheduler", "manual_refresh"}
        => ( /\ call'.fetched
             /\ IF FetchGood(call'.fetch)
                THEN MainFields(cache') =
                        <<call'.fetch[1], call'.fetch[2], DateTime(now)>>
                ELSE MainFields(cache') = MainFields(cache) ) ]_vars

\* a manual refresh that replaced a cache for which no refresh was due
C4_Witness ==
    /\ call.op = "manual_refresh"
    /\ ~call.due
    /\ call.fetched
    /\ FetchGood(call.fetch)
    /\ MainFields(cache) = <<call.fetch[1], call.fetch[2], DateTime(now)>>

\* C5: after any sequence of successful and failed refreshes, cache.get()
\* returns exactly the (table, gameweek) of the most recent successful
\* refresh, or (None, None) if there was none, and no table is kept
\* anywhere else in the cache.
C5_OnlyLatestSnapshot ==
    /\ get(cache, None) = lastGood
    /\ \A key \in DOMAIN cache.cache_items :
           cache.cache_items[key].k # "PlayerDataFrame"

\* a failed refresh after a successful one: the snapshot is still served
C5_Witness ==
    /\ call.op \in DataHandlers
    /\ call.fetched
    /\ ~FetchGood(call.fetch)
    /\ lastGood # <<None, None>>
    /\ get(cache, None) = lastGood

\* C10: once team data is cached under 'team_<id>', a my_team(id) call makes
\* no FPL API call and serves the cached data, and no step other than
\* refresh_my_team(id) (data refreshes included) removes the entry or changes
\* the team data it holds.
C10_TeamCachePerpetual ==
    [][ \A id \in TeamIds :
          LET key == team_cache_key(id).v
          IN  key \in DOMAIN cache.cache_items
              => /\ (call'.op = "my_team" /\ call'.arg = id)
                    => /\ ~call'.api
                       /\ call'.ret = cache'.cache_items[key]
                 /\ ~(call'.op = "refresh_my_team" /\ call'.arg = id)
                    => /\ key \in DOMAIN cache'.cache_items
                       /\ cache'.cache_items[key].v = cache.cache_items[key].v ]_vars

\* a cached team served without an API call, with a data snapshot in place
C10_Witness ==
    /\ call.op = "my_team"
    /\ ~call.api
    /\ call.ret = get(cache, team_cache_key(call.arg))
    /\ cache.data # None

-----------------------------------------------------------------------------
(* The keyed items: team entries and LLM headlines *)

\* the items of the cache other than the one stored under key
OtherItems(c, key) ==
    [x \in DOMAIN c.cache_items \ {key.v} |-> c.cache_items[x]]

\* C11: refresh_my_team(id) removes the entry 'team_<id>' and nothing else:
\* the entries of other teams, 'llm_headlines' and the main table with its
\* gameweek and timestamp stay as they were; it answers with the redirect to
\* /my-team/<id> whether or not the entry was there; the entry then stays
\* absent until my_team(id) runs, and a my_team(id) that finds it absent
\* calls get_my_team_data(id).
C11_RefreshRemovesOneEntry ==
    [][/\ call'.op = "refresh_my_team" =>
            /\ get(cache', team_cache_key(call'.arg)) = None
            /\ OtherItems(cache', team_cache_key(call'.arg))
                    = OtherItems(cache, team_cache_key(call'.arg))
            /\ MainFields(cache') = MainFields(cache)
            /\ call'.ret = Redirect("/my-team/" \o ToString(call'.arg))
       /\ \A id \in TeamIds :
            /\ get(cache, team_cache_key(id)) = None
            /\ ~(call'.op = "my_team" /\ call'.arg = id)
            => get(cache', team_cache_key(id)) = None
       /\ call'.op = "my_team" /\ get(cache, team_cache_key(call'.arg)) = None
            => call'.api
      ]_vars

\* a refresh of one team has run while the other team's entry, the headlines
\* and the main table were cached, and they still are
C11_Witness ==
    /\ call.op = "refresh_my_team"
    /\ get(cache, team_cache_key(call.arg)) = None
    /\ \E id \in TeamIds \ {call.arg} : get(cache, team_cache_key(id)) # None
    /\ get(cache, llm_key) # None
    /\ cache.data # None

\* C13: scheduled_data_refresh, /refresh-now and load_fpl_data leave the
\* 'llm_headlines' entry as it is; an analysis_overview that finds the entry
\* renders it, calls the LLM helper for no key, does not run cache.set and
\* leaves the entry as it is; the entry stays until /llm-refresh-now runs,
\* after which it is absent.
C13_HeadlinesKept ==
    [][/\ call'.op \in DataHandlers => get(cache', llm_key) = get(cache, llm_key)
       /\ call'.op = "analysis_overview" /\ get(cache, llm_key) # None
            => /\ call'.helper = {}
               /\ ~call'.stored
               /\ call'.ret = get(cache, llm_key)
               /\ get(cache', llm_key) = get(cache, llm_key)
       /\ get(cache, llm_key) # None /\ call'.op # "manual_llm_refresh"
            => get(cache', llm_key) = get(cache, llm_key)
       /\ call'.op = "manual_llm_refresh" => get(cache', llm_key) = None
      ]_vars

\* analysis_overview found the headlines cached, refreshed the main table in
\* the same request and rendered the cached headlines
C13_Witness ==
    /\ call.op = "analysis_overview"
    /\ call.fetched /\ FetchGood(call.fetch)
    /\ ~call.stored
    /\ get(cache, llm_key) # None
    /\ call.ret = get(cache, llm_key)

-----------------------------------------------------------------------------
(* The item store against the history of its calls *)

\* the calls of the history that name key
CallsOn(log, key) == {i \in 1..Len(log) : log[i].key = key}

\* the most recent call on key was a set
SetLast(log, key) ==
    /\ CallsOn(log, key) # {}
    /\ log[Max(CallsOn(log, key))].op = "set"

\* the value of the most recent set(key, v) not followed by delete(key)
LastSet(log, key) ==
    IF SetLast(log, key) THEN log[Max(CallsOn(log, key))].value ELSE None

\* the history before its latest call
Before(log) == SubSeq(log, 1, Len(log) - 1)

\* C12: after any sequence of set and delete calls, get(key) returns the
\* value of the most recent set(key, v) that no delete(key) followed, and None
\* if there is none; delete(key) returns True exactly when the key was
\* present, that is when the most recent earlier call on the key was a set,
\* so a delete right after a delete of the same key returns False.
C12_StoreFollowsHistory ==
    /\ \A key \in StoreKeys : get(cache, key) = LastSet(ops, key)
    /\ call.op = "get" => call.ret = LastSet(ops, call.arg)
    /\ call.op = "delete" => call.ret = SetLast(Before(ops), call.arg)
    /\ call.op = "delete" /\ Len(ops) >= 2
            /\ ops[Len(ops) - 1] = ops[Len(ops)]
       => call.ret = FALSE

\* a key was set, deleted and deleted again, the second delete returning False
C12_Witness ==
    /\ call.op = "delete"
    /\ Len(ops) >= 3
    /\ ops[Len(ops) - 2].op = "set" /\ ops[Len(ops) - 2].key = call.arg
    /\ ops[Len(ops) - 2].value # None
    /\ ops[Len(ops) - 1].op = "delete" /\ ops[Len(ops) - 1].key = call.arg
    /\ call.ret = FALSE
    /\ \E key \in StoreKeys \ {call.arg} : get(cache, key) # None

-----------------------------------------------------------------------------
(* Gameweek detection *)

\* the gameweeks for which check_gw_file_exists(gw) is true
ValidGWs == {gw \in 1..LastGW : search.check[gw] = Returned(TRUE)}

\* no gameweek occurs twice in a list of probes
NoRepeat(probes) ==
    \A i, j \in 1..Len(probes) : probes[i] = probes[j] => i = j

\* C14: when some gameweek in 1..38 has a valid file and no exception is
\* raised, find_latest_gw_file() returns the maximum gameweek for which
\* check_gw_file_exists is true, whatever the estimated gameweek.
C14_ReturnsLatestValid ==
    search.pc = "done" /\ ValidGWs # {} /\ ~search.error
        => search.latest_file_gw = Max(ValidGWs)

C16_StatsOneBehind ==
    search.pc = "done" =>
        LET N == search.latest_file_gw
            gw_info == search.gw_info
        IN  /\ gw_info.transfers_gw = N
            /\ gw_info.current_gw = N
            /\ gw_info.stats_gw = Max({1, N - 1})
            /\ 1 <= gw_info.stats_gw
            /\ gw_info.stats_gw <= gw_info.transfers_gw
            /\ gw_info.transfers_gw <= LastGW
            /\ gw_info.transfers_gw - gw_info.stats_gw <= 1
            /\ gw_info.stats_gw = gw_info.transfers_gw <=> N = 1

\* only the file of gameweek 1 is valid: stats and transfers both use it
C16_Witness ==
    /\ search.pc = "done"
    /\ ValidGWs = {1}
    /\ search.latest_file_gw = 1
    /\ search.gw_info.stats_gw = 1
    /\ search.gw_info.transfers_gw = 1

-----------------------------------------------------------------------------
(* The merged table *)

\* the number of rows of a table that belong to player id
RowsOf(rows, id) == Cardinality({i \in 1..Len(rows) : rows[i].id = id})

\* the team codes of the teams list
ListedCodes == {frame.teams_df[i].code : i \in 1..Len(frame.teams_df)}

\* C17: when fetch_data_from_github builds the merged table, every stats row
\* is in it (a player has at least as many rows as in the stats file, and no
\* other player has any); a row whose team code is missing or not a code of
\* the teams list has team_name 'Unknown', every other row the short name of
\* the team with its code.
C17_LeftJoinUnknown ==
    frame.pc = "merged" /\ frame.analysis_df # None =>
        LET rows == frame.analysis_df.rows
        IN  /\ \A id \in PlayerIds :
                    /\ RowsOf(rows, id) >= RowsOf(frame.current_players, id)
                    /\ RowsOf(frame.current_players, id) = 0 => RowsOf(rows, id) = 0
            /\ \A i \in 1..Len(rows) :
                    IF rows[i].team_code = NaN \/ rows[i].team_code.v \notin ListedCodes
                    THEN rows[i].team_name = "Unknown"
                    ELSE \E t \in 1..Len(frame.teams_df) :
                            /\ frame.teams_df[t].code = rows[i].team_code.v
                            /\ rows[i].team_name = frame.teams_df[t].short_name

\* a table of three kinds of rows: a player the master list does not have,
\* a player of a team the teams list does not have, a player of a listed team
C17_Witness ==
    /\ frame.pc = "merged" /\ frame.analysis_df # None
    /\ \E i, j \in 1..Len(frame.analysis_df.rows) :
        LET rows == frame.analysis_df.rows
        IN  /\ rows[i].team_code = NaN /\ rows[i].team_name = "Unknown"
            /\ \A m \in 1..Len(frame.players_master) :
                    frame.players_master[m].player_id # rows[i].id
            /\ rows[j].team_code # NaN /\ rows[j].team_name # "Unknown"

-----------------------------------------------------------------------------
(* points_per_million *)

\* x is the quotient of the numbers a and b
IsQuotient(x, a, b) ==
    /\ x.k = "float"
    /\ x.num * b.num * a.den = a.num * b.den * x.den

\* C18 as stated: in a PlayerDataFrame with the columns total_points and
\* now_cost, every row has points_per_million = 0 when now_cost is not
\* positive and total_points / now_cost otherwise, and it is never an
\* infinity or NaN.
C18_AsStated ==
    frame.pc = "wrapped" /\ {"total_points", "now_cost"} \subseteq frame.arg.columns =>
        \A i \in 1..Len(frame.df.rows) :
            LET row == frame.df.rows[i]
            IN  /\ ~gt0(row["now_cost"]) => row["points_per_million"] = Number(0)
                /\ gt0(row["now_cost"]) =>
                        row["points_per_million"]
                            = truediv(row["total_points"], row["now_cost"])
                /\ row["points_per_million"] \notin {NaN, Infinity(1), Infinity(-1)}

\* C18, amended: in a PlayerDataFrame with the columns total_points and
\* now_cost, every row has points_per_million = 0 when now_cost is missing
\* or not positive, 0 when total_points is missing, and the quotient
\* total_points / now_cost otherwise; it is never an infinity or NaN.
C18_PointsPerMillion ==
    frame.pc = "wrapped" /\ {"total_points", "now_cost"} \subseteq frame.arg.columns =>
        \A i \in 1..Len(frame.df.rows) :
            LET row == frame.df.rows[i]
            IN  /\ ~gt0(row["now_cost"]) => row["points_per_million"] = Number(0)
                /\ gt0(row["now_cost"]) /\ row["total_points"] = NaN
                        => row["points_per_million"] = Number(0)
                /\ gt0(row["now_cost"]) /\ row["total_points"] # NaN
                        => IsQuotient(row["points_per_million"],
                                      row["total_points"], row["now_cost"])
                /\ row["points_per_million"] \notin {NaN, Infinity(1), Infinity(-1)}

\* a table with a row of cost 0 and positive points, and a row of positive
\* cost whose points are missing: both store 0
C18_Witness ==
    /\ frame.pc = "wrapped"
    /\ {"total_points", "now_cost"} \subseteq frame.arg.columns
    /\ \E i, j \in 1..Len(frame.df.rows) :
        /\ frame.df.rows[i]["now_cost"] = Number(0)
        /\ gt0(frame.df.rows[i]["total_points"])
        /\ frame.df.rows[i]["points_per_million"] = Number(0)
        /\ gt0(frame.df.rows[j]["now_cost"])
        /\ frame.df.rows[j]["total_points"] = NaN
        /\ frame.df.rows[j]["points_per_million"] = Number(0)

-----------------------------------------------------------------------------
(* The waits of the LLM helper *)

\* C19: the wait before retry k (k = 1, 2), which follows attempt k, is
\* random.uniform(2^(k-1), 2^k) seconds: initial_delay starts at 1 and has
\* doubled once for every wait made, and every retry is preceded by a wait,
\* after a request error and after an empty or invalid response alike.
C19_BackoffDoubles ==
    /\ \A k \in 1..Len(llm.sleeps) :
            k <= max_retries - 1 =>
                llm.sleeps[k] = [after |-> k, lo |-> 2^(k - 1), hi |-> 2^k]
    /\ llm.pc = "loop" =>
            /\ llm.attempt = Len(llm.sleeps)
            /\ llm.initial_delay = first_delay * 2^Len(llm.sleeps)

\* a second retry is under way, the first after a request error, the second
\* after an empty response, the waits drawn from [1, 2] and [2, 4]
C19_Witness ==
    /\ llm.pc = "loop"
    /\ llm.posts = 2
    /\ llm.log[1].k = "RequestException"
    /\ llm.log[2].k = "empty"
    /\ llm.sleeps = <<[after |-> 1, lo |-> 1, hi |-> 2], [after |-> 2, lo |-> 2, hi |-> 4]>>

\* C20: generate_analysis_headlines makes no wait after its last (third)
\* attempt, whether that attempt ended in a request error or in an empty or
\* invalid response.
C20_NoWaitAfterLastAttempt ==
    \A i \in 1..Len(llm.sleeps) : llm.sleeps[i].after < max_retries

-----------------------------------------------------------------------------
(* Views and top_n *)

\* the row of the table the method was called on that a returned row is
Original(row) == frame.self.rows[row["index"]]

\* are the cells a and b, a before b, in the order asked for; a missing value
\* is in order with everything
Ordered(a, b, ascending) ==
    isna(a) \/ isna(b) \/ IF ascending THEN le(a, b) ELSE ge(a, b)

\* every returned row passes every filter of the view whose column the table has
PassFilters(rows, config) ==
    \A i \in 1..Len(rows) : \A k \in 1..Len(config.filters) :
        config.filters[k].field \in frame.self.columns =>
            passes(Original(rows[i])[config.filters[k].field], config.filters[k].value)

\* C21: for a configured view, get_view(name) returns only rows that pass
\* every configured filter whose column the table has (a scalar is an
\* inclusive minimum, a pair an inclusive range), and the returned rows are in
\* the configured order, ascending or descending, of the values the sort_by
\* column has in the returned table.
C21_ViewFilteredAndSorted ==
    frame.pc = "viewed" /\ frame.view_name \in DOMAIN VIEW_CONFIGS
    /\ frame.result.k = "return" =>
        LET config == VIEW_CONFIGS[frame.view_name]
            rows == frame.result.v.rows
        IN  /\ PassFilters(rows, config)
            /\ config.sort_by \in frame.result.v.columns =>
                \A i, j \in 1..Len(rows) :
                    i < j => Ordered(rows[i][config.sort_by], rows[j][config.sort_by],
                                     config.ascending)

\* what get_view does keep: the returned rows pass the filters and are in the
\* configured order of the values sort_by had in the table it was called on
ViewSortedByOriginal ==
    frame.pc = "viewed" /\ frame.view_name \in DOMAIN VIEW_CONFIGS
    /\ frame.result.k = "return" =>
        LET config == VIEW_CONFIGS[frame.view_name]
            rows == frame.result.v.rows
        IN  /\ PassFilters(rows, config)
            /\ config.sort_by \in frame.result.v.columns
               /\ config.sort_by \in frame.self.columns =>
                \A i, j \in 1..Len(rows) :
                    i < j => Ordered(Original(rows[i])[config.sort_by],
                                     Original(rows[j])[config.sort_by], config.ascending)

\* a view that filters, sorts by value_score and returns several rows
ViewReturnsSeveral ==
    /\ frame.pc = "viewed" /\ frame.view_name = "transfer_search"
    /\ frame.result.k = "return"
    /\ Len(frame.result.v.rows) = 2
    /\ Len(frame.self.rows) = 3

\* the labels of the returned rows
Labels(rows) == {rows[i]["index"] : i \in 1..Len(rows)}

\* C22: top_n(n, sort_by) returns at most n rows, they are the rows with the
\* n largest sort_by values of the table, and they are in descending order of
\* the value sort_by has in the result; stated here for a sort_by that is a
\* column of the table.
C22_TopN ==
    frame.pc = "top" /\ frame.sort_by \in frame.self.columns
    /\ frame.result.k = "return" =>
        LET rows == frame.result.v.rows
            by == frame.sort_by
        IN  /\ Len(rows) <= frame.n
            /\ Cardinality(Labels(rows)) = Min({frame.n, Len(frame.self.rows)})
            /\ \A i \in 1..Len(rows) : \A o \in 1..Len(frame.self.rows) :
                    o \notin Labels(rows) =>
                        \/ isna(frame.self.rows[o][by])
                        \/ ge(Original(rows[i])[by], frame.self.rows[o][by])
            /\ \A i, j \in 1..Len(rows) :
                    i < j => Ordered(rows[i][by], rows[j][by], FALSE)

\* what top_n does keep for a column of the table: at most n rows, those with
\* the n largest values, in descending order of the value sort_by had in the
\* table it was called on
TopNByOriginal ==
    frame.pc = "top" /\ frame.sort_by \in frame.self.columns
    /\ frame.result.k = "return" =>
        LET rows == frame.result.v.rows
            by == frame.sort_by
        IN  /\ Len(rows) <= frame.n
            /\ Cardinality(Labels(rows)) = Min({frame.n, Len(frame.self.rows)})
            /\ \A i \in 1..Len(rows) : \A o \in 1..Len(frame.self.rows) :
                    o \notin Labels(rows) =>
                        \/ isna(frame.self.rows[o][by])
                        \/ ge(Original(rows[i])[by], frame.self.rows[o][by])
            /\ \A i, j \in 1..Len(rows) :
                    i < j => Ordered(Original(rows[i])[by], Original(rows[j])[by], FALSE)

\* top_n for a metric no table has returns the table it was called on
TopNMissingColumn ==
    frame.pc = "top" /\ frame.sort_by \notin frame.self.columns =>
        frame.result = Returned(frame.self)

\* get_view('transfer_search') on a table whose rows all played too little:
\* the constructor raises on the empty table
ViewRaises ==
    frame.pc = "viewed" /\ frame.view_name = "transfer_search"
    /\ frame.result = Raised(AttributeError) /\ Len(frame.self.rows) > 0

====
